---- MODULE Spec2Model ----
(***************************************************************************)
(* A model of the nova-lox pipeline: Scanner -> Parser -> Interpreter,     *)
(* with the Environment chain and the static state of the Nova shell.      *)
(*                                                                         *)
(* Source text is a sequence of one-character strings.  An exception is a  *)
(* record [kind, ...]; a method that can throw returns its result together *)
(* with the exception (NoException when it returned normally).             *)
(***************************************************************************)
EXTENDS Integers, Sequences, FiniteSets, TLC

VARIABLES
  scanner,          \* the Scanner object: source, tokens, start, current, line
  badAt,            \* history: where in the source the Scanner reported what
  parser,           \* the Parser object: tokens, current (and what it reported)
  declLog,          \* history: one entry per declaration() call of parse()'s loop
  hadError,         \* Nova.hadError of src/Nova.ts
  hadRuntimeError,  \* Nova.hadRuntimeError of src/Nova.ts
  lowerHadError,    \* Nova.hadError of src/nova.ts, the module Scanner.ts imports
  heap,             \* the Environment objects, addressed by index
  environment,      \* Interpreter.#environment, an index into heap
  pc,               \* where the process is
  statements,       \* the statements array of parse(), then interpret's argument
  next,             \* index of the next top-level statement of interpret's loop
  source,           \* the source text of the current run
  inputs,           \* how many inputs Nova.run has been given
  out,              \* console.log lines of Print statements in the current run
  stderr,           \* console.error lines of Nova.report in the current run
  rtReports,        \* console.log lines of Nova.runtimeError in the current run
  sinkArgs,         \* history: the exceptions handed to Nova.runtimeError
  blockLog,         \* history: executeBlock entries and exits of the current run
  raised,           \* history: the exceptions caught by interpret in this run
  escaped,          \* the exception that left Nova.run or parse(), if any
  call              \* history: the last call made on an Environment object

vars == << scanner, badAt, parser, declLog, hadError, hadRuntimeError,
           lowerHadError, heap, environment, pc, statements, next, source,
           inputs, out, stderr, rtReports, sinkArgs, blockLog, raised, escaped,
           call >>

scanVars == << scanner, badAt >>
parseVars == << parser, declLog >>
flagVars == << hadError, hadRuntimeError, lowerHadError >>
interpreterVars == << heap, environment >>
runVars == << source, inputs, out, stderr, rtReports, sinkArgs, blockLog, raised,
              escaped >>

(***************************************************************************)
(* Bounds of the model.                                                    *)
(***************************************************************************)
MaxSrcLen == 4        \* longest source text of the scanner specification
MaxPhrases == 4       \* most phrases before EOF in the parser specification
MaxFrags == 5         \* most fragments in a source text given to Nova.run
MaxInputs == 1        \* inputs given to one Nova process
MaxLoop == 3          \* iterations one While statement may run in the model
MaxEnvs == 3          \* Environment objects of the Environment specification
MaxLines == 2         \* lines given to the prompt of one Nova process
MaxNumberLen == 5     \* longest source text of the number specification

(***************************************************************************)
(* Helpers on sequences.                                                   *)
(***************************************************************************)
\* String.prototype.slice(from, to) on 0-based offsets
slice(s, from, to) == SubSeq(s, from + 1, to)

RECURSIVE Flatten(_)
Flatten(ss) == IF ss = << >> THEN << >> ELSE Head(ss) \o Flatten(Tail(ss))

SeqsUpTo(S, n) == UNION { [1..k -> S] : k \in 0..n }

RECURSIVE CountOf(_, _)
CountOf(s, c) ==
  IF s = << >> THEN 0
  ELSE (IF Head(s) = c THEN 1 ELSE 0) + CountOf(Tail(s), c)

(***************************************************************************)
(* Run-time values: string | number | boolean | null.  Every value is a    *)
(* record of one shape; a number is the fraction n/d in lowest terms.      *)
(***************************************************************************)
Nil == [kind |-> "nil", b |-> FALSE, n |-> 0, d |-> 1, s |-> << >>]
Bool(x) == [kind |-> "boolean", b |-> x, n |-> 0, d |-> 1, s |-> << >>]
Str(x) == [kind |-> "string", b |-> FALSE, n |-> 0, d |-> 1, s |-> x]

RECURSIVE GCD(_, _)
GCD(a, b) == IF b = 0 THEN a ELSE GCD(b, a % b)

Abs(x) == IF x < 0 THEN -x ELSE x

\* the number n/d, d > 0, in lowest terms
Num(n, d) ==
  LET g == GCD(Abs(n), d)
  IN [kind |-> "number", b |-> FALSE, n |-> n \div g, d |-> d \div g, s |-> << >>]

(***************************************************************************)
(* Scanner (src/Scanner.ts, the class that reports to Nova).               *)
(***************************************************************************)
NUL == "NUL"       \* the "\0" that peek() and peekNext() return at the end
NL == "\n"
QUOTE == "\""

Digits == {"0", "1", "2", "3", "4", "5", "6", "7", "8", "9"}
Letters == {"a", "b", "c", "d", "e", "f", "g", "h", "i", "j", "k", "l", "m",
            "n", "o", "p", "q", "r", "s", "t", "u", "v", "w", "x", "y", "z",
            "A", "B", "C", "D", "E", "F", "G", "H", "I", "J", "K", "L", "M",
            "N", "O", "P", "Q", "R", "S", "T", "U", "V", "W", "X", "Y", "Z"}

isDigit(c) == c \in Digits
isAlpha(c) == c \in Letters \/ c = "_"
isAlphaNumeric(c) == isAlpha(c) \/ isDigit(c)

DigitValue(c) ==
  CASE c = "0" -> 0 [] c = "1" -> 1 [] c = "2" -> 2 [] c = "3" -> 3
    [] c = "4" -> 4 [] c = "5" -> 5 [] c = "6" -> 6 [] c = "7" -> 7
    [] c = "8" -> 8 [] c = "9" -> 9

RECURSIVE Pow10(_)
Pow10(k) == IF k = 0 THEN 1 ELSE 10 * Pow10(k - 1)

RECURSIVE DigitsValue(_)
DigitsValue(ds) ==
  IF ds = << >> THEN 0
  ELSE DigitsValue(SubSeq(ds, 1, Len(ds) - 1)) * 10 + DigitValue(ds[Len(ds)])

\* Number(text) for the texts number() slices: digits, or digits "." digits
Number(text) ==
  LET dots == { i \in 1..Len(text) : text[i] = "." }
  IN IF dots = {} THEN Num(DigitsValue(text), 1)
     ELSE LET p == CHOOSE i \in dots : TRUE
              whole == SubSeq(text, 1, p - 1)
              frac == SubSeq(text, p + 1, Len(text))
          IN Num(DigitsValue(whole \o frac), Pow10(Len(frac)))

keywords ==
  << [text |-> <<"a","n","d">>, type |-> "AND"],
     [text |-> <<"c","l","a","s","s">>, type |-> "CLASS"],
     [text |-> <<"e","l","s","e">>, type |-> "ELSE"],
     [text |-> <<"f","a","l","s","e">>, type |-> "FALSE"],
     [text |-> <<"f","o","r">>, type |-> "FOR"],
     [text |-> <<"f","u","n">>, type |-> "FUN"],
     [text |-> <<"i","f">>, type |-> "IF"],
     [text |-> <<"n","i","l">>, type |-> "NIL"],
     [text |-> <<"o","r">>, type |-> "OR"],
     [text |-> <<"p","r","i","n","t">>, type |-> "PRINT"],
     [text |-> <<"r","e","t","u","r","n">>, type |-> "RETURN"],
     [text |-> <<"s","u","p","e","r">>, type |-> "SUPER"],
     [text |-> <<"t","h","i","s">>, type |-> "THIS"],
     [text |-> <<"t","r","u","e">>, type |-> "TRUE"],
     [text |-> <<"v","a","r">>, type |-> "VAR"],
     [text |-> <<"w","h","i","l","e">>, type |-> "WHILE"] >>

\* Scanner.keywords.get(text) ?? TokenType.IDENTIFIER
keywords_get(text) ==
  LET hits == { i \in 1..Len(keywords) : keywords[i].text = text }
  IN IF hits = {} THEN "IDENTIFIER" ELSE keywords[CHOOSE i \in hits : TRUE].type

Token(type, lexeme, literal, line) ==
  [type |-> type, lexeme |-> lexeme, literal |-> literal, line |-> line]

\* new Scanner(source)
NewScanner(src) ==
  [source |-> src, tokens |-> << >>, start |-> 0, current |-> 0, line |-> 1,
   errors |-> << >>]

Scanner_isAtEnd(sc) == sc.current >= Len(sc.source)

Scanner_advance(sc) == [sc EXCEPT !.current = @ + 1]

Scanner_peek(sc) ==
  IF Scanner_isAtEnd(sc) THEN NUL ELSE sc.source[sc.current + 1]

Scanner_peekNext(sc) ==
  IF sc.current + 1 >= Len(sc.source) THEN NUL ELSE sc.source[sc.current + 2]

\* match(expected): whether it matched; the scanner after it is Scanner_matched
Scanner_match(sc, expected) ==
  IF Scanner_isAtEnd(sc) THEN FALSE
  ELSE sc.source[sc.current + 1] = expected

Scanner_matched(sc, expected) ==
  IF Scanner_match(sc, expected) THEN [sc EXCEPT !.current = @ + 1] ELSE sc

addToken(sc, type, literal) ==
  LET text == slice(sc.source, sc.start, sc.current)
  IN [sc EXCEPT !.tokens = Append(@, Token(type, text, literal, sc.line))]

\* Nova.error(line, message), called from the Scanner
Scanner_error(sc, message) ==
  [sc EXCEPT !.errors = Append(@, [line |-> sc.line, message |-> message])]

\* while (this.isDigit(this.peek())) this.advance();
RECURSIVE SkipDigits(_)
SkipDigits(sc) ==
  IF isDigit(Scanner_peek(sc)) THEN SkipDigits(Scanner_advance(sc)) ELSE sc

\* number() that takes a '.' whatever follows it
numberAnyDot(sc) ==
  LET s1 == SkipDigits(sc)
      s2 == IF Scanner_peek(s1) = "."
            THEN SkipDigits(Scanner_advance(s1))
            ELSE s1
  IN addToken(s2, "NUMBER", Number(slice(s2.source, s2.start, s2.current)))

number(sc) ==
  LET s1 == SkipDigits(sc)
      s2 == IF Scanner_peek(s1) = "." /\ isDigit(Scanner_peekNext(s1))
            THEN SkipDigits(Scanner_advance(s1))
            ELSE s1
  IN addToken(s2, "NUMBER", Number(slice(s2.source, s2.start, s2.current)))

\* while (this.isAlphaNumeric(this.peek())) this.advance();
RECURSIVE SkipAlphaNumeric(_)
SkipAlphaNumeric(sc) ==
  IF isAlphaNumeric(Scanner_peek(sc)) THEN SkipAlphaNumeric(Scanner_advance(sc))
  ELSE sc

identifier(sc) ==
  LET s1 == SkipAlphaNumeric(sc)
      text == slice(s1.source, s1.start, s1.current)
  IN addToken(s1, keywords_get(text), Nil)

\* the loop of string(): up to the next '"' or the end, counting newlines
RECURSIVE StringBodyNoLines(_)
StringBodyNoLines(sc) ==
  IF Scanner_peek(sc) # QUOTE /\ ~Scanner_isAtEnd(sc)
  THEN StringBodyNoLines(Scanner_advance(sc))
  ELSE sc

RECURSIVE StringBody(_)
StringBody(sc) ==
  IF Scanner_peek(sc) # QUOTE /\ ~Scanner_isAtEnd(sc)
  THEN StringBody(Scanner_advance(
         IF Scanner_peek(sc) = NL THEN [sc EXCEPT !.line = @ + 1] ELSE sc))
  ELSE sc

\* string() that keeps the quotes in the literal
stringWithQuotes(sc) ==
  LET s1 == StringBody(sc)
  IN IF Scanner_isAtEnd(s1) THEN Scanner_error(s1, "Unterminated string.")
     ELSE LET s2 == Scanner_advance(s1)
              text == slice(s2.source, s2.start, s2.current)
          IN addToken(s2, "STRING", Str(text))

string(sc) ==
  LET s1 == StringBody(sc)
  IN IF Scanner_isAtEnd(s1) THEN Scanner_error(s1, "Unterminated string.")
     ELSE LET s2 == Scanner_advance(s1)
              text == slice(s2.source, s2.start + 1, s2.current - 1)
          IN addToken(s2, "STRING", Str(text))

\* while (this.peek() != "\n" && !this.isAtEnd()) this.advance();
RECURSIVE SkipComment(_)
SkipComment(sc) ==
  IF Scanner_peek(sc) # NL /\ ~Scanner_isAtEnd(sc)
  THEN SkipComment(Scanner_advance(sc)) ELSE sc

\* the default case of scanToken's switch
defaultCaseHalts(s, c) ==
  IF isDigit(c) THEN number(s)
  ELSE IF isAlpha(c) THEN identifier(s)
  ELSE [Scanner_error(s, "Unexpected character.") EXCEPT !.current = Len(s.source)]

defaultCase(s, c) ==
  IF isDigit(c) THEN number(s)
  ELSE IF isAlpha(c) THEN identifier(s)
  ELSE Scanner_error(s, "Unexpected character.")

ThenEqual(s, two, one) ==
  addToken(Scanner_matched(s, "="), IF Scanner_match(s, "=") THEN two ELSE one, Nil)

scanToken(sc) ==
  LET c == sc.source[sc.current + 1]
      s == Scanner_advance(sc)
  IN CASE c = "(" -> addToken(s, "LEFT_PAREN", Nil)
       [] c = ")" -> addToken(s, "RIGHT_PAREN", Nil)
       [] c = "{" -> addToken(s, "LEFT_BRACE", Nil)
       [] c = "}" -> addToken(s, "RIGHT_BRACE", Nil)
       [] c = "," -> addToken(s, "COMMA", Nil)
       [] c = "." -> addToken(s, "DOT", Nil)
       [] c = "-" -> addToken(s, "MINUS", Nil)
       [] c = "+" -> addToken(s, "PLUS", Nil)
       [] c = ";" -> addToken(s, "SEMICOLON", Nil)
       [] c = "*" -> addToken(s, "STAR", Nil)
       [] c = "!" -> ThenEqual(s, "BANG_EQUAL", "BANG")
       [] c = "=" -> ThenEqual(s, "EQUAL_EQUAL", "EQUAL")
       [] c = "<" -> ThenEqual(s, "LESS_EQUAL", "LESS")
       [] c = ">" -> ThenEqual(s, "GREATER_EQUAL", "GREATER")
       [] c = "/" -> IF Scanner_match(s, "/")
                     THEN SkipComment(Scanner_matched(s, "/"))
                     ELSE addToken(s, "SLASH", Nil)
       [] c \in {" ", "\r", "\t"} -> s
       [] c = NL -> [s EXCEPT !.line = @ + 1]
       [] c = QUOTE -> string(s)
       [] OTHER -> defaultCase(s, c)

\* one iteration of the loop of scanTokens
scanTokens_step(sc) == scanToken([sc EXCEPT !.start = sc.current])

\* the end of scanTokens: the EOF token
scanTokens_finish(sc) ==
  [sc EXCEPT !.tokens = Append(@, Token("EOF", << >>, Nil, sc.line))]

RECURSIVE scanTokens_loop(_)
scanTokens_loop(sc) ==
  IF Scanner_isAtEnd(sc) THEN scanTokens_finish(sc)
  ELSE scanTokens_loop(scanTokens_step(sc))

\* new Scanner(source).scanTokens(): the scanner when scanTokens returns
scanTokens(src) == scanTokens_loop(NewScanner(src))

(***************************************************************************)
(* AST nodes (src/unnamed/part_004: Expr; Stmt as generated by             *)
(* src/tool/GenerateAst.ts).                                               *)
(***************************************************************************)
AssignExpr(name, value) == [node |-> "Assign", name |-> name, value |-> value]
BinaryExpr(left, operator, right) ==
  [node |-> "Binary", left |-> left, operator |-> operator, right |-> right]
GroupingExpr(expression) == [node |-> "Grouping", expression |-> expression]
LiteralExpr(value) == [node |-> "Literal", value |-> value]
LogicalExpr(left, operator, right) ==
  [node |-> "Logical", left |-> left, operator |-> operator, right |-> right]
UnaryExpr(operator, right) == [node |-> "Unary", operator |-> operator, right |-> right]
VariableExpr(name) == [node |-> "Variable", name |-> name]

BlockStmt(stmts) == [node |-> "Block", statements |-> stmts]
ExpressionStmt(expression) == [node |-> "Expression", expression |-> expression]
IfStmt(condition, thenBranch, elseBranch) ==
  [node |-> "If", condition |-> condition, thenBranch |-> thenBranch,
   elseBranch |-> elseBranch]
PrintStmt(expression) == [node |-> "Print", expression |-> expression]
VarStmt(name, initializer) == [node |-> "Var", name |-> name, initializer |-> initializer]
WhileStmt(condition, body) == [node |-> "While", condition |-> condition, body |-> body]

null == [node |-> "null"]

(***************************************************************************)
(* Exceptions.                                                             *)
(***************************************************************************)
NoToken == Token("NONE", << >>, Nil, 0)
\* an exception: its class, its message as the template and the text put into
\* it, and the token a RuntimeError carries
NoException == [kind |-> "none", message |-> "", arg |-> << >>, token |-> NoToken]
\* class ParseError extends Error {}
ParseError == [kind |-> "ParseError", message |-> "", arg |-> << >>, token |-> NoToken]
\* new Error(`message ${arg}`): a plain Error, with no token
Error(message, arg) ==
  [kind |-> "Error", message |-> message, arg |-> arg, token |-> NoToken]
\* new RuntimeError(token, message)
RuntimeError(token, message) ==
  [kind |-> "RuntimeError", message |-> message, arg |-> << >>, token |-> token]
\* what reading error.token.line throws when error.token is undefined
TypeError ==
  [kind |-> "TypeError", message |-> "token is undefined", arg |-> << >>,
   token |-> NoToken]

Returned(r) == r.ex.kind = "none"
Threw(r) == r.ex.kind # "none"

(***************************************************************************)
(* Parser (src/Interpreter.ts lines 134-546).  A method takes the parser   *)
(* p = [tokens, current, reports, syncs] and returns [p, v, ex]: the       *)
(* parser after the call, the value returned and the exception thrown.     *)
(***************************************************************************)
\* (wrapped: previous() was called with current = 0 and gave tokens.at(-1))
NewParser(tokens) ==
  [tokens |-> tokens, current |-> 0, reports |-> << >>, syncs |-> << >>,
   wrapped |-> FALSE]

Ok(p, v) == [p |-> p, v |-> v, ex |-> NoException]
Throw(p, e) == [p |-> p, v |-> null, ex |-> e]

\* peek() throws when tokens.at(current) is undefined
Parser_peekThrows(p) == p.current >= Len(p.tokens)
\* (the two numbers its message holds are p.current and Len(p.tokens))
Parser_peekError(p) == Error("Parser:peek : Parser current idx is greater", << >>)
Parser_peek(p) == p.tokens[p.current + 1]

\* previous(): tokens.at(current - 1); at(-1) is the last token
Parser_previousThrows(p) ==
  IF p.current = 0 THEN Len(p.tokens) = 0 ELSE p.current - 1 >= Len(p.tokens)
Parser_previousError(p) == Error("Parser#previous : Parser current idx is greater", << >>)
Parser_previous(p) ==
  IF p.current = 0 THEN p.tokens[Len(p.tokens)] ELSE p.tokens[p.current]

\* the three below call peek(): they are used where Parser_peekThrows is false
Parser_isAtEnd(p) == Parser_peek(p).type = "EOF"
Parser_check(p, type) == IF Parser_isAtEnd(p) THEN FALSE ELSE Parser_peek(p).type = type
\* advance() without its test of isAtEnd()
Parser_advanceUnguarded(p) ==
  [p EXCEPT !.current = @ + 1]

\* advance(): "if (!this.isAtEnd()) this.current++; return this.previous();"
Parser_advance(p) ==
  LET q == IF ~Parser_isAtEnd(p) THEN [p EXCEPT !.current = @ + 1] ELSE p
  IN [q EXCEPT !.wrapped = @ \/ q.current = 0]

\* match(...types): whether one of the types is the next token's
Parser_match(p, types) == \E type \in types : Parser_check(p, type)

\* Nova.errorAtToken(token, message) -> Nova.report(line, where, message)
errorAtToken(token, index, message) ==
  [line |-> token.line, atEnd |-> token.type = "EOF", lexeme |-> token.lexeme,
   message |-> message, index |-> index]

\* error(token, message): reports; the ParseError it returns is thrown by the caller
Parser_error(p, index, message) ==
  [p EXCEPT !.reports = Append(@, errorAtToken(p.tokens[index + 1], index, message))]

consume(p, type, message) ==
  IF Parser_peekThrows(p) THEN Throw(p, Parser_peekError(p))
  ELSE IF Parser_check(p, type) THEN Ok(Parser_advance(p), Parser_peek(p))
  ELSE Throw(Parser_error(p, p.current, message), ParseError)

StartsStatement == {"CLASS", "FUN", "VAR", "FOR", "IF", "WHILE", "PRINT", "RETURN"}

\* a loop that stops after a ';' only, not before a statement keyword
RECURSIVE synchronize_loopSemicolonOnly(_)
synchronize_loopSemicolonOnly(p) ==
  IF Parser_peekThrows(p) THEN Throw(p, Parser_peekError(p))
  ELSE IF Parser_isAtEnd(p) THEN Ok(p, null)
  ELSE IF Parser_previousThrows(p) THEN Throw(p, Parser_previousError(p))
  ELSE IF Parser_previous(p).type = "SEMICOLON" THEN Ok(p, null)
  ELSE synchronize_loopSemicolonOnly(Parser_advance(p))

RECURSIVE synchronize_loop(_)
synchronize_loop(p) ==
  IF Parser_peekThrows(p) THEN Throw(p, Parser_peekError(p))
  ELSE IF Parser_isAtEnd(p) THEN Ok(p, null)
  ELSE IF Parser_previousThrows(p) THEN Throw(p, Parser_previousError(p))
  ELSE IF Parser_previous(p).type = "SEMICOLON" THEN Ok(p, null)
  ELSE IF Parser_peek(p).type \in StartsStatement THEN Ok(p, null)
  ELSE synchronize_loop(Parser_advance(p))

synchronizeNoAdvance(p) == synchronize_loop(p)

synchronize(p) ==
  IF Parser_peekThrows(p) THEN Throw(p, Parser_peekError(p))
  ELSE IF Parser_previousThrows(Parser_advance(p))
       THEN Throw(p, Parser_previousError(Parser_advance(p)))
  ELSE synchronize_loop(Parser_advance(p))

\* "const x = f(...); rest": rest runs only when f returned, with the parser
\* and the value f left; an exception thrown by f propagates
Bind(r, rest(_, _)) == IF Threw(r) THEN r ELSE rest(r.p, r.v)

\* a call of match(), check() or isAtEnd() first: it throws when peek() does
Peeking(p, r) == IF Parser_peekThrows(p) THEN Throw(p, Parser_peekError(p)) ELSE r

RECURSIVE expression(_), assignment(_), Parser_or(_), Parser_or_loop(_, _, _),
          Parser_and(_), Parser_and_loop(_, _, _), equality(_), equality_loop(_, _, _),
          comparison(_), comparison_loop(_, _, _), term(_), term_loop(_, _, _),
          factor(_), factor_loop(_, _, _), unary(_), primary(_),
          declaration(_), statement(_), forStatement(_), ifStatement(_),
          printStatement(_), expressionStatement(_), block(_), block_loop(_, _),
          varDeclaration(_), whileStatement(_)

primary(p) ==
  Peeking(p,
    IF Parser_match(p, {"FALSE"}) THEN Ok(Parser_advance(p), LiteralExpr(Bool(FALSE)))
    ELSE IF Parser_match(p, {"TRUE"}) THEN Ok(Parser_advance(p), LiteralExpr(Bool(TRUE)))
    ELSE IF Parser_match(p, {"NIL"}) THEN Ok(Parser_advance(p), LiteralExpr(Nil))
    ELSE IF Parser_match(p, {"NUMBER", "STRING"})
         THEN Ok(Parser_advance(p), LiteralExpr(Parser_peek(p).literal))
    ELSE IF Parser_match(p, {"IDENTIFIER"})
         THEN Ok(Parser_advance(p), VariableExpr(Parser_peek(p)))
    ELSE IF Parser_match(p, {"LEFT_PAREN"})
         THEN Bind(expression(Parser_advance(p)), LAMBDA p1, expr :
              Bind(consume(p1, "RIGHT_PAREN", "Expected ')' after expression."),
                   LAMBDA p2, paren : Ok(p2, GroupingExpr(expr))))
    ELSE Throw(Parser_error(p, p.current, "Expected expression."), ParseError))

unary(p) ==
  Peeking(p,
    IF Parser_match(p, {"BANG", "MINUS"})
    THEN Bind(unary(Parser_advance(p)), LAMBDA p1, right :
              Ok(p1, UnaryExpr(Parser_peek(p), right)))
    ELSE primary(p))

\* The binary levels below share one shape in the source:
\*   let expr = operand(); while (match(...)) { operator = previous();
\*   right = operand(); expr = new Node(expr, operator, right); } return expr;
\* X_loop(p, left, operator) reads one operand and folds it into the
\* expression read so far (left = null before the first operand), then goes
\* round again while an operator of the level follows.
\* factor() that takes '+' as an operator of its own level
factor_loopWithPlus(p, left, operator) ==
  Bind(unary(p), LAMBDA p1, right :
    Peeking(p1,
      IF Parser_match(p1, {"SLASH", "STAR", "PLUS"})
      THEN factor_loop(Parser_advance(p1),
                  IF left = null THEN right ELSE BinaryExpr(left, operator, right),
                  Parser_peek(p1))
      ELSE Ok(p1, IF left = null THEN right ELSE BinaryExpr(left, operator, right))))

factor_loop(p, left, operator) ==
  Bind(unary(p), LAMBDA p1, right :
    Peeking(p1,
      IF Parser_match(p1, {"SLASH", "STAR"})
      THEN factor_loop(Parser_advance(p1),
                  IF left = null THEN right ELSE BinaryExpr(left, operator, right),
                  Parser_peek(p1))
      ELSE Ok(p1, IF left = null THEN right ELSE BinaryExpr(left, operator, right))))

factor(p) == factor_loop(p, null, NoToken)

term_loop(p, left, operator) ==
  Bind(factor(p), LAMBDA p1, right :
    Peeking(p1,
      IF Parser_match(p1, {"PLUS", "MINUS"})
      THEN term_loop(Parser_advance(p1),
                IF left = null THEN right ELSE BinaryExpr(left, operator, right),
                Parser_peek(p1))
      ELSE Ok(p1, IF left = null THEN right ELSE BinaryExpr(left, operator, right))))

term(p) == term_loop(p, null, NoToken)

comparison_loop(p, left, operator) ==
  Bind(term(p), LAMBDA p1, right :
    Peeking(p1,
      IF Parser_match(p1, {"GREATER", "GREATER_EQUAL", "LESS", "LESS_EQUAL"})
      THEN comparison_loop(Parser_advance(p1),
                      IF left = null THEN right ELSE BinaryExpr(left, operator, right),
                      Parser_peek(p1))
      ELSE Ok(p1, IF left = null THEN right ELSE BinaryExpr(left, operator, right))))

comparison(p) == comparison_loop(p, null, NoToken)

equality_loop(p, left, operator) ==
  Bind(comparison(p), LAMBDA p1, right :
    Peeking(p1,
      IF Parser_match(p1, {"BANG_EQUAL", "EQUAL_EQUAL"})
      THEN equality_loop(Parser_advance(p1),
                    IF left = null THEN right ELSE BinaryExpr(left, operator, right),
                    Parser_peek(p1))
      ELSE Ok(p1, IF left = null THEN right ELSE BinaryExpr(left, operator, right))))

equality(p) == equality_loop(p, null, NoToken)

Parser_and_loop(p, left, operator) ==
  Bind(equality(p), LAMBDA p1, right :
    Peeking(p1,
      IF Parser_match(p1, {"AND"})
      THEN Parser_and_loop(Parser_advance(p1),
                      IF left = null THEN right ELSE LogicalExpr(left, operator, right),
                      Parser_peek(p1))
      ELSE Ok(p1, IF left = null THEN right ELSE LogicalExpr(left, operator, right))))

Parser_and(p) == Parser_and_loop(p, null, NoToken)

Parser_or_loop(p, left, operator) ==
  Bind(Parser_and(p), LAMBDA p1, right :
    Peeking(p1,
      IF Parser_match(p1, {"OR"})
      THEN Parser_or_loop(Parser_advance(p1),
                     IF left = null THEN right ELSE LogicalExpr(left, operator, right),
                     Parser_peek(p1))
      ELSE Ok(p1, IF left = null THEN right ELSE LogicalExpr(left, operator, right))))

Parser_or(p) == Parser_or_loop(p, null, NoToken)

\* assignment() that throws the error it reports
assignment_restThrows(p, expr) ==
  Peeking(p,
    IF Parser_match(p, {"EQUAL"})
    THEN Bind(assignment(Parser_advance(p)), LAMBDA p1, value :
              IF expr.node = "Variable" THEN Ok(p1, AssignExpr(expr.name, value))
              ELSE Throw(Parser_error(p1, p.current, "Invalid assignment target."),
                         ParseError))
    ELSE Ok(p, expr))

\* the report made at the token after the value, peek(), not at the '='
assignment_restAtPeek(p, expr) ==
  Peeking(p,
    IF Parser_match(p, {"EQUAL"})
    THEN Bind(assignment(Parser_advance(p)), LAMBDA p1, value :
              IF expr.node = "Variable" THEN Ok(p1, AssignExpr(expr.name, value))
              ELSE Ok(Parser_error(p1, p1.current, "Invalid assignment target."), expr))
    ELSE Ok(p, expr))

\* assignment() after "const expr = this.or()"; a target that is no Variable
\* is reported at the '=' token and nothing is thrown
assignment_rest(p, expr) ==
  Peeking(p,
    IF Parser_match(p, {"EQUAL"})
    THEN Bind(assignment(Parser_advance(p)), LAMBDA p1, value :
              IF expr.node = "Variable" THEN Ok(p1, AssignExpr(expr.name, value))
              ELSE Ok(Parser_error(p1, p.current, "Invalid assignment target."), expr))
    ELSE Ok(p, expr))

assignment(p) == Bind(Parser_or(p), assignment_rest)

expression(p) == assignment(p)

printStatement(p) ==
  Bind(expression(p), LAMBDA p1, value :
  Bind(consume(p1, "SEMICOLON", "Expect ';' after value."), LAMBDA p2, semi :
  Ok(p2, PrintStmt(value))))

expressionStatement(p) ==
  Bind(expression(p), LAMBDA p1, expr :
  Bind(consume(p1, "SEMICOLON", "Expect ';' after expression."), LAMBDA p2, semi :
  Ok(p2, ExpressionStmt(expr))))

varDeclaration(p) ==
  Bind(consume(p, "IDENTIFIER", "Expect variable name."), LAMBDA p1, name :
  Bind(Peeking(p1, IF Parser_match(p1, {"EQUAL"}) THEN expression(Parser_advance(p1))
                   ELSE Ok(p1, null)),
       LAMBDA p2, initializer :
  Bind(consume(p2, "SEMICOLON", "Expect ';' after variable declaration."),
       LAMBDA p3, semi :
  Ok(p3, VarStmt(name, initializer)))))

whileStatement(p) ==
  Bind(consume(p, "LEFT_PAREN", "Expect '(' after 'while'."), LAMBDA p1, left :
  Bind(expression(p1), LAMBDA p2, condition :
  Bind(consume(p2, "RIGHT_PAREN", "Expect ')' after condition."), LAMBDA p3, right :
  Bind(statement(p3), LAMBDA p4, body :
  Ok(p4, WhileStmt(condition, body))))))

ifStatement(p) ==
  Bind(consume(p, "LEFT_PAREN", "Expect '(' after 'if'."), LAMBDA p1, left :
  Bind(expression(p1), LAMBDA p2, condition :
  Bind(consume(p2, "RIGHT_PAREN", "Expect '(' after if condition."), LAMBDA p3, right :
  Bind(statement(p3), LAMBDA p4, thenBranch :
  Bind(Peeking(p4, IF Parser_match(p4, {"ELSE"}) THEN statement(Parser_advance(p4))
                   ELSE Ok(p4, null)),
       LAMBDA p5, elseBranch :
  Ok(p5, IfStmt(condition, thenBranch, elseBranch)))))))

\* the same with the increment placed before the body
forStatement_desugarIncrementFirst(initializer, condition, increment, body) ==
  LET body1 == IF increment # null
               THEN BlockStmt(<< ExpressionStmt(increment), body >>)
               ELSE body
      body2 == WhileStmt(IF condition = null THEN LiteralExpr(Bool(TRUE))
                         ELSE condition,
                         body1)
  IN IF initializer # null THEN BlockStmt(<< initializer, body2 >>) ELSE body2

\* the node forStatement() builds of its four parts
forStatement_desugar(initializer, condition, increment, body) ==
  LET body1 == IF increment # null
               THEN BlockStmt(<< body, ExpressionStmt(increment) >>)
               ELSE body
      body2 == WhileStmt(IF condition = null THEN LiteralExpr(Bool(TRUE))
                         ELSE condition,
                         body1)
  IN IF initializer # null THEN BlockStmt(<< initializer, body2 >>) ELSE body2

forStatement(p) ==
  Bind(consume(p, "LEFT_PAREN", "Expect '(' after 'for'."), LAMBDA p1, left :
  Bind(Peeking(p1, IF Parser_match(p1, {"SEMICOLON"}) THEN Ok(Parser_advance(p1), null)
                   ELSE IF Parser_match(p1, {"VAR"})
                        THEN varDeclaration(Parser_advance(p1))
                   ELSE expressionStatement(p1)),
       LAMBDA p2, initializer :
  Bind(Peeking(p2, IF ~Parser_check(p2, "SEMICOLON") THEN expression(p2)
                   ELSE Ok(p2, null)),
       LAMBDA p3, condition :
  Bind(consume(p3, "SEMICOLON", "Expect ';' after loop condition."), LAMBDA p4, semi :
  Bind(Peeking(p4, IF ~Parser_check(p4, "RIGHT_PAREN") THEN expression(p4)
                   ELSE Ok(p4, null)),
       LAMBDA p5, increment :
  Bind(consume(p5, "RIGHT_PAREN", "Expect ')' after for loop clauses."),
       LAMBDA p6, right :
  Bind(statement(p6), LAMBDA p7, body :
  Ok(p7, forStatement_desugar(initializer, condition, increment, body)))))))))

block_loop(p, stmts) ==
  Peeking(p,
    IF ~Parser_check(p, "RIGHT_BRACE") /\ ~Parser_isAtEnd(p)
    THEN Bind(declaration(p), LAMBDA p1, decl :
              block_loop(p1, IF decl = null THEN stmts ELSE Append(stmts, decl)))
    ELSE Bind(consume(p, "RIGHT_BRACE", "Expect '}' after block"), LAMBDA p1, brace :
              Ok(p1, stmts)))

block(p) == block_loop(p, << >>)

statement(p) ==
  Peeking(p,
    IF Parser_match(p, {"FOR"}) THEN forStatement(Parser_advance(p))
    ELSE IF Parser_match(p, {"IF"}) THEN ifStatement(Parser_advance(p))
    ELSE IF Parser_match(p, {"PRINT"}) THEN printStatement(Parser_advance(p))
    ELSE IF Parser_match(p, {"WHILE"}) THEN whileStatement(Parser_advance(p))
    ELSE IF Parser_match(p, {"LEFT_BRACE"})
         THEN Bind(block(Parser_advance(p)), LAMBDA p1, stmts : Ok(p1, BlockStmt(stmts)))
    ELSE expressionStatement(p))

\* the try block of declaration()
declaration_try(p) ==
  Peeking(p,
    IF Parser_match(p, {"VAR"}) THEN varDeclaration(Parser_advance(p))
    ELSE statement(p))

\* the history entry of a synchronize() call: what was caught, the index of
\* the token last reported, and the cursor before and after
SyncEntry(p, ex, after) ==
  [caught |-> ex.kind,
   error |-> IF p.reports = << >> THEN -1 ELSE p.reports[Len(p.reports)].index,
   from |-> p.current, to |-> after.current]

\* "catch { this.synchronize(); return null; }": it catches whatever was thrown
declaration_catch(r) ==
  IF Returned(r) THEN r
  ELSE LET s == synchronize(r.p)
           logged == [s.p EXCEPT !.syncs = Append(@, SyncEntry(r.p, r.ex, s.p))]
       IN IF Threw(s) THEN Throw(logged, s.ex) ELSE Ok(logged, null)

declaration(p) == declaration_catch(declaration_try(p))

\* the loop of parse(), from a parser at any cursor
RECURSIVE parse_loop(_, _)
parse_loop(p, stmts) ==
  Peeking(p,
    IF ~Parser_isAtEnd(p)
    THEN Bind(declaration(p), LAMBDA p1, decl :
              parse_loop(p1, IF decl = null THEN stmts ELSE Append(stmts, decl)))
    ELSE Ok(p, stmts))

\* new Parser(tokens).parse()
parse(tokens) == parse_loop(NewParser(tokens), << >>)

(***************************************************************************)
(* Environment (src/Environment.ts).  heap[i] is an Environment object:    *)
(* its #values map and the index of its enclosing object (0 for null).     *)
(***************************************************************************)
EmptyMap == [x \in {} |-> Nil]

\* new Environment(enclosing)
NewEnvironment(enclosing) == [values |-> EmptyMap, enclosing |-> enclosing]

Map_set(m, name, value) ==
  [x \in DOMAIN m \cup {name} |-> IF x = name THEN value ELSE m[x]]

Environment_defineEnclosing(h, env, name, value) ==
  LET target == IF h[env].enclosing # 0 THEN h[env].enclosing ELSE env
  IN [h EXCEPT ![target].values = Map_set(@, name, value)]

\* define that keeps an earlier binding of the name
Environment_defineOnce(h, env, name, value) ==
  IF name \in DOMAIN h[env].values THEN h
  ELSE [h EXCEPT ![env].values = Map_set(@, name, value)]

\* define(name, value): the heap after the call
Environment_define(h, env, name, value) ==
  [h EXCEPT ![env].values = Map_set(@, name, value)]

\* get that tests the value instead of has(): a nil binding counts as absent
RECURSIVE Environment_getDefined(_, _, _)
Environment_getDefined(h, env, name) ==
  IF name.lexeme \in DOMAIN h[env].values /\ h[env].values[name.lexeme] # Nil
  THEN [v |-> h[env].values[name.lexeme], ex |-> NoException]
  ELSE IF h[env].enclosing # 0 THEN Environment_getDefined(h, h[env].enclosing, name)
  ELSE [v |-> Nil, ex |-> Error("Unidentified variable ${name.lexeme}.", name.lexeme)]

\* get(name): [v, ex]
RECURSIVE Environment_get(_, _, _)
Environment_get(h, env, name) ==
  IF name.lexeme \in DOMAIN h[env].values
  THEN [v |-> h[env].values[name.lexeme], ex |-> NoException]
  ELSE IF h[env].enclosing # 0 THEN Environment_get(h, h[env].enclosing, name)
  ELSE [v |-> Nil, ex |-> Error("Unidentified variable ${name.lexeme}.", name.lexeme)]

\* assign that sets the name in the outermost scope when no scope binds it
RECURSIVE Environment_assignGlobal(_, _, _, _)
Environment_assignGlobal(h, env, name, value) ==
  IF name.lexeme \in DOMAIN h[env].values \/ h[env].enclosing = 0
  THEN [h |-> [h EXCEPT ![env].values = Map_set(@, name.lexeme, value)],
        ex |-> NoException]
  ELSE Environment_assignGlobal(h, h[env].enclosing, name, value)

\* assign(name, value): [h, ex], the heap after the call and the exception
RECURSIVE Environment_assign(_, _, _, _)
Environment_assign(h, env, name, value) ==
  IF name.lexeme \in DOMAIN h[env].values
  THEN [h |-> [h EXCEPT ![env].values = Map_set(@, name.lexeme, value)],
        ex |-> NoException]
  ELSE IF h[env].enclosing # 0
       THEN Environment_assign(h, h[env].enclosing, name, value)
  ELSE [h |-> h, ex |-> Error("Undefined variable ${name.lexeme}", name.lexeme)]

(***************************************************************************)
(* Numbers.  A finite number is the fraction n/d with d > 0; d = 0 stands  *)
(* for the non-finite doubles: n = 1 Infinity, n = -1 -Infinity, n = 0 NaN.*)
(* Rounding and the sign of zero are not modelled.                         *)
(***************************************************************************)
NonFinite(n) == [kind |-> "number", b |-> FALSE, n |-> n, d |-> 0, s |-> << >>]
NaN == NonFinite(0)
isNaN(a) == a.d = 0 /\ a.n = 0
isInf(a) == a.d = 0 /\ a.n # 0
Sign(x) == IF x > 0 THEN 1 ELSE IF x < 0 THEN -1 ELSE 0

Number_neg(a) == [a EXCEPT !.n = -a.n]

Number_add(a, b) ==
  IF isNaN(a) \/ isNaN(b) THEN NaN
  ELSE IF isInf(a) /\ isInf(b) THEN (IF a.n = b.n THEN a ELSE NaN)
  ELSE IF isInf(a) THEN a
  ELSE IF isInf(b) THEN b
  ELSE Num(a.n * b.d + b.n * a.d, a.d * b.d)

Number_sub(a, b) == Number_add(a, Number_neg(b))

Number_mul(a, b) ==
  IF isNaN(a) \/ isNaN(b) THEN NaN
  ELSE IF isInf(a) \/ isInf(b)
       THEN (IF a.n = 0 \/ b.n = 0 THEN NaN ELSE NonFinite(Sign(a.n) * Sign(b.n)))
  ELSE Num(a.n * b.n, a.d * b.d)

Number_div(a, b) ==
  IF isNaN(a) \/ isNaN(b) THEN NaN
  ELSE IF isInf(a) THEN (IF isInf(b) THEN NaN
                         ELSE NonFinite(a.n * (IF b.n < 0 THEN -1 ELSE 1)))
  ELSE IF isInf(b) THEN Num(0, 1)
  ELSE IF b.n = 0 THEN (IF a.n = 0 THEN NaN ELSE NonFinite(Sign(a.n)))
  ELSE Num(a.n * b.d * Sign(b.n), a.d * Abs(b.n))

\* a < b
Number_less(a, b) ==
  IF isNaN(a) \/ isNaN(b) THEN FALSE
  ELSE IF isInf(a) THEN a.n < 0 /\ ~(isInf(b) /\ b.n < 0)
  ELSE IF isInf(b) THEN b.n > 0
  ELSE a.n * b.d < b.n * a.d

\* a === b on numbers
Number_eq(a, b) == ~isNaN(a) /\ ~isNaN(b) /\ a = b

DigitChar(k) ==
  CASE k = 0 -> "0" [] k = 1 -> "1" [] k = 2 -> "2" [] k = 3 -> "3" [] k = 4 -> "4"
    [] k = 5 -> "5" [] k = 6 -> "6" [] k = 7 -> "7" [] k = 8 -> "8" [] k = 9 -> "9"

RECURSIVE NatText(_)
NatText(k) == IF k < 10 THEN << DigitChar(k) >>
              ELSE Append(NatText(k \div 10), DigitChar(k % 10))

\* the digits of num/den after the point, for a den that divides a power of 10
RECURSIVE FracText(_, _)
FracText(num, den) ==
  IF num = 0 THEN << >>
  ELSE << DigitChar((num * 10) \div den) >> \o FracText((num * 10) % den, den)

RECURSIVE Terminates(_)
Terminates(den) ==
  IF den = 1 THEN TRUE
  ELSE IF den % 2 = 0 THEN Terminates(den \div 2)
  ELSE IF den % 5 = 0 THEN Terminates(den \div 5)
  ELSE FALSE

\* String(obj) for a number: exact for integers and terminating decimals; a
\* fraction whose decimal expansion does not terminate is shown as n/d
String_number(a) ==
  IF isNaN(a) THEN <<"N","a","N">>
  ELSE IF isInf(a)
       THEN (IF a.n < 0 THEN <<"-">> ELSE << >>) \o <<"I","n","f","i","n","i","t","y">>
  ELSE LET sign == IF a.n < 0 THEN <<"-">> ELSE << >>
           whole == Abs(a.n) \div a.d
           rest == Abs(a.n) % a.d
       IN IF rest = 0 THEN sign \o NatText(whole)
          ELSE IF Terminates(a.d)
               THEN sign \o NatText(whole) \o <<".">> \o FracText(rest, a.d)
          ELSE sign \o NatText(Abs(a.n)) \o <<"/">> \o NatText(a.d)

endsWith(text, suffix) ==
  Len(text) >= Len(suffix)
  /\ SubSeq(text, Len(text) - Len(suffix) + 1, Len(text)) = suffix

(***************************************************************************)
(* Interpreter (src/unnamed/part_003 lines 229-456).  The interpreter i is *)
(* [heap, environment, out, blockLog]; a visit returns [i, v, ex].         *)
(***************************************************************************)
Done(i, v) == [i |-> i, v |-> v, ex |-> NoException]
Raise(i, e) == [i |-> i, v |-> Nil, ex |-> e]

\* the model's bound on a While statement was reached: not an exception of the program
BoundReached == [kind |-> "Bound", message |-> "", arg |-> << >>, token |-> NoToken]

\* isTruthy() with the number 0 and the empty string falsy as well
isTruthyZeroFalsy(obj) ==
  IF obj.kind = "nil" THEN FALSE
  ELSE IF obj.kind = "boolean" THEN obj.b
  ELSE IF obj.kind = "number" THEN obj.n # 0
  ELSE obj.s # << >>

isTruthy(obj) ==
  IF obj.kind = "nil" THEN FALSE
  ELSE IF obj.kind = "boolean" THEN obj.b
  ELSE TRUE

isEqual(left, right) ==
  IF left.kind = "number" /\ right.kind = "number" THEN Number_eq(left, right)
  ELSE left = right

stringify(obj) ==
  IF obj.kind = "nil" THEN <<"n","i","l">>
  ELSE IF obj.kind = "number"
       THEN LET text == String_number(obj)
            IN IF endsWith(text, <<".","0">>) THEN SubSeq(text, 1, Len(text) - 2)
               ELSE text
  ELSE IF obj.kind = "boolean"
       THEN (IF obj.b THEN <<"t","r","u","e">> ELSE <<"f","a","l","s","e">>)
  ELSE obj.s

checkNumberOperand(operator, operand) ==
  IF operand.kind = "number" THEN NoException
  ELSE RuntimeError(operator, "Operand must be a number.")

\* checkNumberOperands that tests the left operand only
checkNumberOperandsLeft(operator, left, right) ==
  IF left.kind = "number" THEN NoException
  ELSE RuntimeError(operator, "Operands must be numbers.")

checkNumberOperands(operator, left, right) ==
  IF left.kind = "number" /\ right.kind = "number" THEN NoException
  ELSE RuntimeError(operator, "Operands must be numbers.")

\* "left + right" with no test of the operand types: a string operand
\* makes it a concatenation of the two operands as strings
BinaryPlusCoercing(operator, left, right) ==
  IF left.kind = "string" \/ right.kind = "string"
  THEN [v |-> Str(stringify(left) \o stringify(right)), ex |-> NoException]
  ELSE IF left.kind = "number" /\ right.kind = "number"
  THEN [v |-> Number_add(left, right), ex |-> NoException]
  ELSE [v |-> Nil,
        ex |-> RuntimeError(operator, "Operands must be two numbers or two strings.")]

\* case TokenType.PLUS of visitBinaryExpr: [v, ex]
BinaryPlus(operator, left, right) ==
  IF left.kind = "string" /\ right.kind = "string"
  THEN [v |-> Str(left.s \o right.s), ex |-> NoException]
  ELSE IF left.kind = "number" /\ right.kind = "number"
  THEN [v |-> Number_add(left, right), ex |-> NoException]
  ELSE [v |-> Nil,
        ex |-> RuntimeError(operator, "Operands must be two numbers or two strings.")]

\* the switch of visitBinaryExpr on two evaluated operands: [v, ex]
BinaryOp(operator, left, right) ==
  LET type == operator.type
      numbers == checkNumberOperands(operator, left, right)
      Checked(v) == IF numbers.kind = "none" THEN [v |-> v, ex |-> NoException]
                    ELSE [v |-> Nil, ex |-> numbers]
  IN CASE type = "GREATER" -> Checked(Bool(Number_less(right, left)))
       [] type = "GREATER_EQUAL" ->
            Checked(Bool(Number_less(right, left) \/ Number_eq(left, right)))
       [] type = "LESS" -> Checked(Bool(Number_less(left, right)))
       [] type = "LESS_EQUAL" ->
            Checked(Bool(Number_less(left, right) \/ Number_eq(left, right)))
       [] type = "BANG_EQUAL" -> [v |-> Bool(~isEqual(left, right)), ex |-> NoException]
       [] type = "EQUAL_EQUAL" -> [v |-> Bool(isEqual(left, right)), ex |-> NoException]
       [] type = "MINUS" -> Checked(Number_sub(left, right))
       [] type = "SLASH" -> Checked(Number_div(left, right))
       [] type = "STAR" -> Checked(Number_mul(left, right))
       [] type = "PLUS" -> BinaryPlus(operator, left, right)
       [] OTHER -> [v |-> Nil, ex |-> NoException]

\* "const x = f(...); rest": rest runs only when f returned, with the
\* interpreter and the value f left; an exception thrown by f propagates
Then(r, rest(_, _)) == IF Threw(r) THEN r ELSE rest(r.i, r.v)

\* a call [v, ex] that leaves the interpreter as it is: its value or its throw
Outcome(i, r) == IF r.ex.kind = "none" THEN Done(i, r.v) ELSE Raise(i, r.ex)

RECURSIVE evaluate(_, _), execute(_, _), executeAll(_, _), executeBlock(_, _, _),
          visitWhileStmt(_, _, _)

visitLiteralExpr(i, expr) == Done(i, expr.value)

visitGroupingExpr(i, expr) == evaluate(i, expr.expression)

visitVariableExpr(i, expr) ==
  Outcome(i, Environment_get(i.heap, i.environment, expr.name))

visitAssignExpr(i, expr) ==
  Then(evaluate(i, expr.value), LAMBDA i1, value :
    LET r == Environment_assign(i1.heap, i1.environment, expr.name, value)
    IN IF r.ex.kind = "none" THEN Done([i1 EXCEPT !.heap = r.h], value)
       ELSE Raise(i1, r.ex))

\* visitLogicalExpr that evaluates both operands before it chooses
visitLogicalExprEager(i, expr) ==
  Then(evaluate(i, expr.left), LAMBDA i1, left :
  Then(evaluate(i1, expr.right), LAMBDA i2, right :
    IF (IF expr.operator.type = "OR" THEN isTruthy(left) ELSE ~isTruthy(left))
    THEN Done(i2, left)
    ELSE Done(i2, right)))

visitLogicalExpr(i, expr) ==
  Then(evaluate(i, expr.left), LAMBDA i1, left :
    IF (IF expr.operator.type = "OR" THEN isTruthy(left) ELSE ~isTruthy(left))
    THEN Done(i1, left)
    ELSE evaluate(i1, expr.right))

visitUnaryExpr(i, expr) ==
  Then(evaluate(i, expr.right), LAMBDA i1, right :
    IF expr.operator.type = "BANG" THEN Done(i1, Bool(~isTruthy(right)))
    ELSE IF expr.operator.type = "MINUS"
         THEN Outcome(i1, [v |-> Number_neg(right),
                           ex |-> checkNumberOperand(expr.operator, right)])
    ELSE Done(i1, Nil))

visitBinaryExpr(i, expr) ==
  Then(evaluate(i, expr.left), LAMBDA i1, left :
  Then(evaluate(i1, expr.right), LAMBDA i2, right :
  Outcome(i2, BinaryOp(expr.operator, left, right))))

\* expr.accept(this)
evaluate(i, expr) ==
  CASE expr.node = "Literal" -> visitLiteralExpr(i, expr)
    [] expr.node = "Grouping" -> visitGroupingExpr(i, expr)
    [] expr.node = "Variable" -> visitVariableExpr(i, expr)
    [] expr.node = "Assign" -> visitAssignExpr(i, expr)
    [] expr.node = "Logical" -> visitLogicalExpr(i, expr)
    [] expr.node = "Unary" -> visitUnaryExpr(i, expr)
    [] expr.node = "Binary" -> visitBinaryExpr(i, expr)

visitExpressionStmt(i, stmt) ==
  Then(evaluate(i, stmt.expression), LAMBDA i1, value : Done(i1, Nil))

visitIfStmt(i, stmt) ==
  Then(evaluate(i, stmt.condition), LAMBDA i1, condition :
    IF isTruthy(condition) THEN execute(i1, stmt.thenBranch)
    ELSE IF stmt.elseBranch # null THEN execute(i1, stmt.elseBranch)
    ELSE Done(i1, Nil))

visitPrintStmt(i, stmt) ==
  Then(evaluate(i, stmt.expression), LAMBDA i1, value :
    Done([i1 EXCEPT !.out = Append(@, stringify(value))], Nil))

\* visitVarStmt that defines the name, as nil, before it evaluates the initializer
visitVarStmtDefineFirst(i, stmt) ==
  Then(IF stmt.initializer # null
       THEN evaluate([i EXCEPT !.heap = Environment_define(@, i.environment,
                                                           stmt.name.lexeme, Nil)],
                     stmt.initializer)
       ELSE Done(i, Nil),
       LAMBDA i1, val :
    Done([i1 EXCEPT !.heap = Environment_define(@, i1.environment, stmt.name.lexeme,
                                                val)],
         Nil))

visitVarStmt(i, stmt) ==
  Then(IF stmt.initializer # null THEN evaluate(i, stmt.initializer) ELSE Done(i, Nil),
       LAMBDA i1, val :
    Done([i1 EXCEPT !.heap = Environment_define(@, i1.environment, stmt.name.lexeme,
                                                val)],
         Nil))

\* a loop that tests its condition after the body, not before it
RECURSIVE visitWhileStmtDoWhile(_, _, _)
visitWhileStmtDoWhile(i, stmt, left) ==
  IF left = 0 THEN Raise(i, BoundReached)
  ELSE Then(execute(i, stmt.body), LAMBDA i1, body :
       Then(evaluate(i1, stmt.condition), LAMBDA i2, condition :
         IF ~isTruthy(condition) THEN Done(i2, Nil)
         ELSE visitWhileStmtDoWhile(i2, stmt, left - 1)))

\* visitWhileStmt, with the iterations the model still allows it
visitWhileStmt(i, stmt, left) ==
  Then(evaluate(i, stmt.condition), LAMBDA i1, condition :
    IF ~isTruthy(condition) THEN Done(i1, Nil)
    ELSE IF left = 0 THEN Raise(i1, BoundReached)
    ELSE Then(execute(i1, stmt.body), LAMBDA i2, body :
              visitWhileStmt(i2, stmt, left - 1)))

\* for (const statement of statements) this.execute(statement);
executeAll(i, stmts) ==
  IF stmts = << >> THEN Done(i, Nil)
  ELSE Then(execute(i, Head(stmts)), LAMBDA i1, done : executeAll(i1, Tail(stmts)))

\* the history entry of a block: the environment on entry and on exit
LogBlock(i, event, previous, env) ==
  [i EXCEPT !.blockLog = Append(@, [event |-> event, previous |-> previous,
                                    env |-> env, now |-> i.environment])]

\* "this.#environment = previous", leaving the block however its statements
\* ended; the Environment objects made in the block are unreachable from then
\* on, and leave the heap
executeBlock_finally(r, previous, env) ==
  [r EXCEPT !.i = LogBlock([r.i EXCEPT !.environment = previous,
                                       !.heap = SubSeq(@, 1, env - 1)],
                           "exit", previous, env)]

\* the same statement placed after the loop instead of in a finally clause
executeBlock_afterLoop(r, previous, env) ==
  IF Threw(r) THEN [r EXCEPT !.i = LogBlock(r.i, "exit", previous, env)]
  ELSE executeBlock_finally(r, previous, env)

executeBlockNoFinally(i, stmts, env) ==
  executeBlock_afterLoop(
    executeAll(LogBlock([i EXCEPT !.environment = env], "enter", i.environment, env),
               stmts),
    i.environment, env)

\* executeBlock(statements, environment)
executeBlock(i, stmts, env) ==
  executeBlock_finally(
    executeAll(LogBlock([i EXCEPT !.environment = env], "enter", i.environment, env),
               stmts),
    i.environment, env)

visitBlockStmt(i, stmt) ==
  executeBlock([i EXCEPT !.heap = Append(@, NewEnvironment(i.environment))],
               stmt.statements, Len(i.heap) + 1)

\* stmt.accept(this)
execute(i, stmt) ==
  CASE stmt.node = "Block" -> visitBlockStmt(i, stmt)
    [] stmt.node = "Expression" -> visitExpressionStmt(i, stmt)
    [] stmt.node = "If" -> visitIfStmt(i, stmt)
    [] stmt.node = "Print" -> visitPrintStmt(i, stmt)
    [] stmt.node = "Var" -> visitVarStmt(i, stmt)
    [] stmt.node = "While" -> visitWhileStmt(i, stmt, MaxLoop)

(***************************************************************************)
(* Input sets.                                                             *)
(***************************************************************************)
\* the characters of the scanner specification's source texts
ScanChars == {"1", "a", ".", "=", "/", "@", " ", NL, QUOTE}
ScanSources == SeqsUpTo(ScanChars, MaxSrcLen)

\* the phrases the parser specification's token lists are made of: single
\* lexemes, an opening parenthesis with its operand, and a whole statement
Phrases ==
  { <<"1">>, <<"a">>, <<"=">>, <<";">>, <<"+">>, <<"(", "1">>, <<")">>, <<"{">>, <<"}">>,
    <<"p","r","i","n","t">>, <<"v","a","r">>, <<"1", ";">> }

Spaced(ws) == Flatten([k \in 1..Len(ws) |-> ws[k] \o <<" ">>])

\* the token lists the Scanner makes of up to MaxPhrases phrases
TokenLists == { scanTokens(Spaced(ws)).tokens : ws \in SeqsUpTo(Phrases, MaxPhrases) }

\* the pieces of the source texts given to Nova.run
\* var a="outer";
Fragment1 ==
  << "v", "a", "r", " ", "a", "=", QUOTE, "o", "u", "t", "e", "r", QUOTE,
     ";" >>
\* {var a="inner";
Fragment2 ==
  << "{", "v", "a", "r", " ", "a", "=", QUOTE, "i", "n", "n", "e", "r",
     QUOTE, ";" >>
\* print a;
Fragment3 ==
  << "p", "r", "i", "n", "t", " ", "a", ";" >>
\* }
Fragment4 ==
  << "}" >>
\* a=3;
Fragment5 ==
  << "a", "=", "3", ";" >>
\* print -a;
Fragment6 ==
  << "p", "r", "i", "n", "t", " ", "-", "a", ";" >>
\* 1 1;
Fragment7 ==
  << "1", " ", "1", ";" >>
\* @
Fragment8 ==
  << "@" >>

Fragments ==
  { Fragment1, Fragment2, Fragment3, Fragment4,
    Fragment5, Fragment6, Fragment7, Fragment8 }

Sources == { Flatten(fs) : fs \in SeqsUpTo(Fragments, MaxFrags) }

(***************************************************************************)
(* The initial state of a Nova process (src/Nova.ts lines 10-13, and the   *)
(* Interpreter's field initializers).                                      *)
(***************************************************************************)
NoScanner == NewScanner(<< >>)
NoParser == NewParser(<< >>)

\* no call on an Environment object recorded
NoCall ==
  [op |-> "none", env |-> 0, name |-> << >>, value |-> Nil, before |-> << >>,
   v |-> Nil, ex |-> NoException]

FreshNova ==
  /\ hadError = FALSE
  /\ hadRuntimeError = FALSE
  /\ lowerHadError = FALSE
  /\ heap = << NewEnvironment(0) >>
  /\ environment = 1
  /\ statements = << >>
  /\ next = 1
  /\ source = << >>
  /\ inputs = 0
  /\ out = << >>
  /\ stderr = << >>
  /\ rtReports = << >>
  /\ sinkArgs = << >>
  /\ blockLog = << >>
  /\ raised = << >>
  /\ escaped = NoException
  /\ call = NoCall

(***************************************************************************)
(* The scanner specification: one Scanner, one call of scanTokens().       *)
(***************************************************************************)
InitScanner ==
  /\ scanner \in { NewScanner(src) : src \in ScanSources }
  /\ badAt = << >>
  /\ parser = NoParser
  /\ declLog = << >>
  /\ pc = "scanning"
  /\ FreshNova

\* one iteration of the loop of scanTokens()
Scan_Token ==
  /\ UNCHANGED call
  /\ pc = "scanning"
  /\ ~Scanner_isAtEnd(scanner)
  /\ scanner' = scanTokens_step(scanner)
  /\ badAt' = IF Len(scanner'.errors) > Len(scanner.errors)
              THEN Append(badAt, [at |-> scanner.current,
                                  message |-> scanner'.errors[Len(scanner'.errors)].message])
              ELSE badAt
  /\ lowerHadError' = (lowerHadError \/ Len(scanner'.errors) > Len(scanner.errors))
  /\ UNCHANGED << parseVars, hadError, hadRuntimeError, interpreterVars, pc,
                  statements, next, runVars >>

\* the loop of scanTokens() ends: the EOF token, and the return
Scan_Return ==
  /\ UNCHANGED call
  /\ pc = "scanning"
  /\ Scanner_isAtEnd(scanner)
  /\ scanner' = scanTokens_finish(scanner)
  /\ pc' = "scanned"
  /\ UNCHANGED << badAt, parseVars, flagVars, interpreterVars, statements, next,
                  runVars >>

NextScanner == Scan_Token \/ Scan_Return

SpecScanner == InitScanner /\ [][NextScanner]_vars

(***************************************************************************)
(* The scanner over texts of digits, '.' and a letter.                     *)
(***************************************************************************)
NumberChars == {"1", "2", "3", "5", ".", "a"}
NumberSources == SeqsUpTo(NumberChars, MaxNumberLen)

InitNumber ==
  /\ scanner \in { NewScanner(src) : src \in NumberSources }
  /\ badAt = << >>
  /\ parser = NoParser
  /\ declLog = << >>
  /\ pc = "scanning"
  /\ FreshNova

SpecNumber == InitNumber /\ [][NextScanner]_vars

(***************************************************************************)
(* The parser specification: one Parser, one call of parse().              *)
(***************************************************************************)
InitParser ==
  /\ scanner = NoScanner
  /\ badAt = << >>
  /\ parser \in { NewParser(tokens) : tokens \in TokenLists }
  /\ declLog = << >>
  /\ pc = "parsing"
  /\ FreshNova

\* the rest of an iteration of the loop of parse(), given what declaration()
\* did: push the statement, or let the exception leave parse()
Parse_Push(decl) ==
  /\ parser' = decl.p
  /\ hadError' = (hadError \/ Len(decl.p.reports) > Len(parser.reports))
  /\ declLog' = Append(declLog,
                       [from |-> parser.current, to |-> decl.p.current,
                        reports |-> Len(decl.p.reports) - Len(parser.reports),
                        syncs |-> Len(decl.p.syncs) - Len(parser.syncs),
                        lastSync |-> Len(decl.p.syncs),
                        pushed |-> Returned(decl) /\ decl.v # null])
  /\ IF Threw(decl)
     THEN /\ escaped' = decl.ex
          /\ pc' = "crashed"
          /\ UNCHANGED statements
     ELSE /\ statements' = IF decl.v = null THEN statements
                           ELSE Append(statements, decl.v)
          /\ UNCHANGED << escaped, pc >>

\* one iteration of the loop of parse(): a declaration() call and the push
Parse_Declaration ==
  /\ UNCHANGED call
  /\ pc = "parsing"
  /\ ~Parser_peekThrows(parser)
  /\ ~Parser_isAtEnd(parser)
  /\ Parse_Push(declaration(parser))
  /\ UNCHANGED << scanVars, hadRuntimeError, lowerHadError, interpreterVars, next,
                  source, inputs, out, stderr, rtReports, sinkArgs, blockLog,
                  raised >>

\* the loop of parse() ends: return statements
Parse_Return ==
  /\ UNCHANGED call
  /\ pc = "parsing"
  /\ ~Parser_peekThrows(parser)
  /\ Parser_isAtEnd(parser)
  /\ pc' = "parsed"
  /\ UNCHANGED << scanVars, parseVars, flagVars, interpreterVars, statements, next,
                  runVars >>

NextParser == Parse_Declaration \/ Parse_Return

SpecParser == InitParser /\ [][NextParser]_vars

\* parse() is one synchronous call: once entered, its loop runs on.  This is
\* weak fairness of NextParser, written with what ENABLED <<NextParser>>_vars
\* comes to: NextParser can take a step exactly while parse() has not
\* returned or thrown.
ParserRuns == []<>(pc # "parsing") \/ []<><<pc = "parsing">>_vars

FairSpecParser == SpecParser /\ ParserRuns

(***************************************************************************)
(* The for specification: parse() on one for statement, with each of the   *)
(* initializer, the condition and the increment present or absent.         *)
(***************************************************************************)
\* ";" (no initializer), "var i=0;", "var i;", "i=0;"
ForInitializers ==
  { << ";" >>,
    << "v", "a", "r", " ", "i", "=", "0", ";" >>,
    << "v", "a", "r", " ", "i", ";" >>,
    << "i", "=", "0", ";" >> }
\* "" (no condition), "i<1", "true"
ForConditions ==
  { << >>,
    << "i", "<", "1" >>,
    << "t", "r", "u", "e" >> }
\* "" (no increment), "i=i+1", "i"
ForIncrements ==
  { << >>,
    << "i", "=", "i", "+", "1" >>,
    << "i" >> }
\* "print i;", "{}", "i=2;"
ForBodies ==
  { << "p", "r", "i", "n", "t", " ", "i", ";" >>,
    << "{", "}" >>,
    << "i", "=", "2", ";" >> }

ForParts ==
  [initializer : ForInitializers, condition : ForConditions,
   increment : ForIncrements, body : ForBodies]

\* for(initializer condition; increment) body
ForText(parts) ==
  << "f", "o", "r", "(" >> \o parts.initializer \o parts.condition \o << ";" >>
    \o parts.increment \o << ")" >> \o parts.body

InitFor ==
  /\ scanner = NoScanner
  /\ badAt = << >>
  /\ parser \in { NewParser(scanTokens(ForText(parts)).tokens) : parts \in ForParts }
  /\ declLog = << >>
  /\ pc = "parsing"
  /\ FreshNova

SpecFor == InitFor /\ [][NextParser]_vars

(***************************************************************************)
(* The Parser over expression statements of three operands and two         *)
(* operators,  [u]a op [u]b op [u]c;  with an optional unary operator u    *)
(* before each operand.                                                    *)
(***************************************************************************)
InfixOperators ==
  { << " ", "=", " " >>,
    << " ", "o", "r", " " >>,
    << " ", "a", "n", "d", " " >>,
    << " ", "=", "=", " " >>,
    << " ", "!", "=", " " >>,
    << " ", ">", " " >>,
    << " ", ">", "=", " " >>,
    << " ", "<", " " >>,
    << " ", "<", "=", " " >>,
    << " ", "+", " " >>,
    << " ", "-", " " >>,
    << " ", "*", " " >>,
    << " ", "/", " " >> }
PrefixOperators == { << >>, << "-" >>, << "!" >> }
ExpressionTexts ==
  { u1 \o << "a" >> \o op1 \o u2 \o << "b" >> \o op2 \o u3 \o << "c", ";" >> :
      u1 \in PrefixOperators, op1 \in InfixOperators, u2 \in PrefixOperators,
      op2 \in InfixOperators, u3 \in PrefixOperators }

InitExpression ==
  /\ scanner = NoScanner
  /\ badAt = << >>
  /\ parser \in { NewParser(scanTokens(text).tokens) : text \in ExpressionTexts }
  /\ declLog = << >>
  /\ pc = "parsing"
  /\ FreshNova

SpecExpression == InitExpression /\ [][NextParser]_vars

(***************************************************************************)
(* The Nova process (src/Nova.ts): run(source) for each input, with the    *)
(* loop of Interpreter.interpret taken one top-level statement at a time.  *)
(***************************************************************************)
Init ==
  /\ scanner = NoScanner
  /\ badAt = << >>
  /\ parser = NoParser
  /\ declLog = << >>
  /\ pc = "idle"
  /\ FreshNova

\* Nova.report(line, where, message): the console.error line
report(line, where, message) == [line |-> line, where |-> where, message |-> message]

\* the console.error lines of the Scanner's Nova.error calls
ScannerLines(sc) ==
  [k \in 1..Len(sc.errors) |->
     report(sc.errors[k].line, << >>, sc.errors[k].message)]

\* the console.error lines of the Parser's Nova.errorAtToken calls
ParserLines(p) ==
  [k \in 1..Len(p.reports) |->
     report(p.reports[k].line,
            IF p.reports[k].atEnd THEN <<"e","n","d">> ELSE p.reports[k].lexeme,
            p.reports[k].message)]

\* run(source) after "parser.parse()", given the scanner scanTokens() left
\* and what parse() did: return early, or enter interpret()
Run_Interpret(sc, parsed) ==
  /\ scanner' = sc
  /\ parser' = parsed.p
  /\ lowerHadError' = (lowerHadError \/ sc.errors # << >>)
  /\ hadError' = (hadError \/ parsed.p.reports # << >>)
  /\ stderr' = ScannerLines(sc) \o ParserLines(parsed.p)
  /\ statements' = IF Returned(parsed) THEN parsed.v ELSE << >>
  /\ escaped' = parsed.ex
  /\ pc' = IF Threw(parsed) THEN "crashed"
           ELSE IF hadError \/ parsed.p.reports # << >> THEN "idle"
           ELSE IF parsed.v = << >> THEN "idle"
           ELSE "interpreting"

Run_Parse(sc) == Run_Interpret(sc, parse(sc.tokens))

\* run(source): scan, parse, and return early or enter interpret()
Run ==
  /\ UNCHANGED call
  /\ pc = "idle"
  /\ inputs < MaxInputs
  /\ \E src \in Sources : source' = src /\ Run_Parse(scanTokens(src))
  /\ inputs' = inputs + 1
  /\ next' = 1
  /\ out' = << >>
  /\ rtReports' = << >>
  /\ sinkArgs' = << >>
  /\ blockLog' = << >>
  /\ raised' = << >>
  /\ UNCHANGED << badAt, declLog, hadRuntimeError, interpreterVars >>

\* this.execute(statement), from the interpreter's fields
Interpret_Statement ==
  execute([heap |-> heap, environment |-> environment, out |-> out,
           blockLog |-> blockLog], statements[next])

Interpret_Returned(r) ==
  /\ Returned(r)
  /\ heap' = r.i.heap
  /\ environment' = r.i.environment
  /\ out' = r.i.out
  /\ blockLog' = r.i.blockLog

\* interpret(): one iteration of the loop, the statement returns normally
Interpret_Execute ==
  /\ UNCHANGED call
  /\ pc = "interpreting"
  /\ Interpret_Returned(Interpret_Statement)
  /\ next' = next + 1
  /\ pc' = IF next = Len(statements) THEN "idle" ELSE "interpreting"
  /\ UNCHANGED << scanVars, parseVars, flagVars, statements, source, inputs, stderr,
                  rtReports, sinkArgs, raised, escaped >>

\* Nova.runtimeError(error): error.token is undefined unless the error is a
\* RuntimeError, and reading its line then throws a TypeError before anything
\* is printed or set
runtimeError(error) ==
  IF error.kind = "RuntimeError"
  THEN [lines |-> << [message |-> error.message, line |-> error.token.line] >>,
        flag |-> TRUE, ex |-> NoException]
  ELSE [lines |-> << >>, flag |-> FALSE, ex |-> TypeError]

\* "catch (e) { Nova.runtimeError(e); }", whatever e is
Interpret_Caught(r) ==
  /\ Threw(r)
  /\ r.ex.kind # "Bound"
  /\ heap' = r.i.heap
  /\ environment' = r.i.environment
  /\ out' = r.i.out
  /\ blockLog' = r.i.blockLog
  /\ raised' = Append(raised, r.ex)
  /\ sinkArgs' = Append(sinkArgs, r.ex)
  /\ rtReports' = rtReports \o runtimeError(r.ex).lines
  /\ hadRuntimeError' = (hadRuntimeError \/ runtimeError(r.ex).flag)
  /\ escaped' = runtimeError(r.ex).ex
  /\ pc' = IF runtimeError(r.ex).ex.kind = "none" THEN "idle" ELSE "crashed"

\* interpret(): a statement throws, and the catch block runs
Interpret_Catch ==
  /\ UNCHANGED call
  /\ pc = "interpreting"
  /\ Interpret_Caught(Interpret_Statement)
  /\ UNCHANGED << scanVars, parseVars, hadError, lowerHadError, statements, next,
                  source, inputs, stderr >>

Next == Run \/ Interpret_Execute \/ Interpret_Catch

Spec == Init /\ [][Next]_vars

\* scanTokens() is one synchronous call: once entered, its loop runs on
FairSpecScanner == SpecScanner /\ WF_vars(NextScanner)

(***************************************************************************)
(* The prompt specification (src/Nova.ts, runPrompt): one Nova process     *)
(* that runs line after line on its one Interpreter.                       *)
(***************************************************************************)
\* 1, 2, "a", nil, true
Operands ==
  { << "1" >>,
    << "2" >>,
    << QUOTE, "a", QUOTE >>,
    << "n", "i", "l" >>,
    << "t", "r", "u", "e" >> }
\* the binary operators that are no equality
BinaryOperators ==
  { << "+" >>,
    << "-" >>,
    << "*" >>,
    << "/" >>,
    << ">" >>,
    << ">", "=" >>,
    << "<" >>,
    << "<", "=" >> }
\* print l op r;
ArithmeticLines ==
  { << "p", "r", "i", "n", "t", " " >> \o l \o op \o r \o << ";" >> :
      l \in Operands, op \in BinaryOperators, r \in Operands }
\* print -x;  print !x;
UnaryLines ==
  { << "p", "r", "i", "n", "t", " " >> \o op \o x \o << ";" >> :
      op \in { << "-" >>, << "!" >> }, x \in Operands \cup { << "f", "a", "l", "s", "e" >> } }
\* var a=1;print l or r;print a;  and the same with and
LogicalLines ==
  { << "v", "a", "r", " ", "a", "=", "1", ";", "p", "r", "i", "n", "t", " " >> \o l \o op \o r \o << ";", "p", "r", "i", "n", "t", " ", "a", ";" >> :
      l \in { << "n", "i", "l" >>,
           << "f", "a", "l", "s", "e" >>,
           << "t", "r", "u", "e" >>,
           << "1" >>,
           << QUOTE, "a", QUOTE >>,
           << "(", "a", "=", "a", "+", "1", ")" >> },
      op \in { << " ", "o", "r", " " >>, << " ", "a", "n", "d", " " >> },
      r \in { << QUOTE, "x", QUOTE >>,
           << "(", "a", "=", "a", "+", "1", ")" >>,
           << "b" >> } }
\* for(var i=n;i<m;i=i+1)print i;
ForLine(n, m) ==
  << "f", "o", "r", "(", "v", "a", "r", " ", "i", "=" >> \o n \o << ";", "i", "<" >> \o m \o << ";", "i", "=", "i", "+", "1", ")", "p", "r", "i", "n", "t", " ", "i", ";" >>
ForLines == { ForLine(n, m) : n \in {<<"0">>, <<"1">>, <<"2">>},
                              m \in {<<"0">>, <<"1">>, <<"2">>, <<"3">>} }
\* lines that leave bindings for the lines after them:
\* var a="outer";   var a=1;var b;   var a="outer";print -a;   var b=2;b=b+1;
BindingLines ==
  { << "v", "a", "r", " ", "a", "=", QUOTE, "o", "u", "t", "e", "r", QUOTE, ";" >>,
    << "v", "a", "r", " ", "a", "=", "1", ";", "v", "a", "r", " ", "b", ";" >>,
    << "v", "a", "r", " ", "a", "=", QUOTE, "o", "u", "t", "e", "r", QUOTE, ";", "p", "r", "i", "n", "t", " ", "-", "a", ";" >>,
    << "v", "a", "r", " ", "b", "=", "2", ";", "b", "=", "b", "+", "1", ";" >> }

\* lines that branch on a literal x:
\* if(x)print "t";else print "e";   var c=x;while(c){print "w";c=nil;}
\* print !x;   print x or "r";   print x and "r";
ConditionTexts ==
  { << "n", "i", "l" >>,
    << "f", "a", "l", "s", "e" >>,
    << "t", "r", "u", "e" >>,
    << "0" >>,
    << "1" >>,
    << QUOTE, QUOTE >>,
    << QUOTE, "a", QUOTE >> }
IfLine(x) ==
  << "i", "f", "(" >> \o x \o << ")", "p", "r", "i", "n", "t", " ", QUOTE, "t", QUOTE, ";", "e", "l", "s", "e", " ", "p", "r", "i", "n", "t", " ", QUOTE, "e", QUOTE, ";" >>
WhileLine(x) ==
  << "v", "a", "r", " ", "c", "=" >> \o x \o << ";", "w", "h", "i", "l", "e", "(", "c", ")", "{", "p", "r", "i", "n", "t", " ", QUOTE, "w", QUOTE, ";", "c", "=", "n", "i", "l", ";", "}" >>
NotLine(x) == << "p", "r", "i", "n", "t", " ", "!" >> \o x \o << ";" >>
OrLine(x) ==
  << "p", "r", "i", "n", "t", " " >> \o x \o << " ", "o", "r", " ", QUOTE, "r", QUOTE, ";" >>
AndLine(x) ==
  << "p", "r", "i", "n", "t", " " >> \o x \o << " ", "a", "n", "d", " ", QUOTE, "r", QUOTE, ";" >>
ConditionLines ==
  UNION { { IfLine(x), WhileLine(x), NotLine(x), OrLine(x), AndLine(x) } :
            x \in ConditionTexts }

\* lines with a static error:  @   var a=1;@   print 1
StaticErrorLines ==
  { << "@" >>,
    << "v", "a", "r", " ", "a", "=", "1", ";", "@" >>,
    << "p", "r", "i", "n", "t", " ", "1" >> }

\* lines with Var statements:
\*   var a=1;{var a=a+1;print a;}print a;
\*   var a=1;var a=a+1;print a;
\*   var b=-"x";
\*   var d=d;
\*   var c;print c;
ShadowingVarLine ==
  << "v", "a", "r", " ", "a", "=", "1", ";", "{", "v", "a", "r", " ", "a", "=", "a", "+", "1", ";", "p", "r", "i", "n", "t", " ", "a", ";", "}", "p", "r", "i", "n", "t", " ", "a", ";" >>
RedefiningVarLine ==
  << "v", "a", "r", " ", "a", "=", "1", ";", "v", "a", "r", " ", "a", "=", "a", "+", "1", ";", "p", "r", "i", "n", "t", " ", "a", ";" >>
FailingVarLine ==
  << "v", "a", "r", " ", "b", "=", "-", QUOTE, "x", QUOTE, ";" >>
UndefinedVarLine ==
  << "v", "a", "r", " ", "d", "=", "d", ";" >>
BareVarLine ==
  << "v", "a", "r", " ", "c", ";", "p", "r", "i", "n", "t", " ", "c", ";" >>
VarLines ==
  { ShadowingVarLine,
    RedefiningVarLine,
    FailingVarLine,
    UndefinedVarLine,
    BareVarLine }

FirstLines == ArithmeticLines \cup UnaryLines \cup LogicalLines \cup ForLines
                \cup BindingLines \cup ConditionLines \cup StaticErrorLines
                \cup VarLines

\* print a;  a=3;  var a="inner";  print a-1;  print b;  print a  {a=3;}
\* {var a="inner";}
LaterLines ==
  { << "p", "r", "i", "n", "t", " ", "a", ";" >>,
    << "a", "=", "3", ";" >>,
    << "v", "a", "r", " ", "a", "=", QUOTE, "i", "n", "n", "e", "r", QUOTE, ";" >>,
    << "p", "r", "i", "n", "t", " ", "a", "-", "1", ";" >>,
    << "p", "r", "i", "n", "t", " ", "b", ";" >>,
    << "p", "r", "i", "n", "t", " ", "a" >>,
    << "{", "a", "=", "3", ";", "}" >>,
    << "{", "v", "a", "r", " ", "a", "=", QUOTE, "i", "n", "n", "e", "r", QUOTE, ";", "}" >> }

\* the lines the k-th line is drawn from
Lines(k) == IF k = 0 THEN FirstLines ELSE LaterLines

\* a run(line) that makes a new Interpreter for each line
Prompt_LineFresh ==
  /\ UNCHANGED call
  /\ pc = "idle"
  /\ inputs < MaxLines
  /\ \E line \in Lines(inputs) : source' = line /\ Run_Parse(scanTokens(line))
  /\ inputs' = inputs + 1
  /\ next' = 1
  /\ out' = << >>
  /\ rtReports' = << >>
  /\ sinkArgs' = << >>
  /\ blockLog' = << >>
  /\ raised' = << >>
  /\ heap' = << NewEnvironment(0) >>
  /\ environment' = 1
  /\ UNCHANGED << badAt, declLog, hadRuntimeError >>

\* runPrompt: the next line is read and given to run(line)
Prompt_Line ==
  /\ UNCHANGED call
  /\ pc = "idle"
  /\ inputs < MaxLines
  /\ \E line \in Lines(inputs) : source' = line /\ Run_Parse(scanTokens(line))
  /\ inputs' = inputs + 1
  /\ next' = 1
  /\ out' = << >>
  /\ rtReports' = << >>
  /\ sinkArgs' = << >>
  /\ blockLog' = << >>
  /\ raised' = << >>
  /\ UNCHANGED << badAt, declLog, hadRuntimeError, interpreterVars >>

NextPrompt == Prompt_Line \/ Interpret_Execute \/ Interpret_Catch

SpecPrompt == Init /\ [][NextPrompt]_vars

(***************************************************************************)
(* The Environment specification (src/Environment.ts): objects made by the *)
(* constructor with any enclosing object or null, and calls of define, get *)
(* and assign on any of them.                                              *)
(***************************************************************************)
\* the names and values of the Environment specification
Names == { <<"a">>, <<"b">> }
Values == { Nil, Num(1, 1) }

InitEnvironment ==
  /\ scanner = NoScanner
  /\ badAt = << >>
  /\ parser = NoParser
  /\ declLog = << >>
  /\ pc = "environment"
  /\ FreshNova

\* new Environment(enclosing)
Env_New ==
  /\ pc = "environment"
  /\ Len(heap) < MaxEnvs
  /\ \E enclosing \in 0..Len(heap) :
       /\ heap' = Append(heap, NewEnvironment(enclosing))
       /\ call' = [NoCall EXCEPT !.op = "new", !.env = Len(heap) + 1, !.before = heap]
  /\ UNCHANGED << scanVars, parseVars, flagVars, environment, pc, statements, next,
                  runVars >>

\* env.define(name, value)
Env_Define ==
  /\ pc = "environment"
  /\ \E env \in 1..Len(heap), name \in Names, value \in Values :
       /\ heap' = Environment_define(heap, env, name, value)
       /\ call' = [NoCall EXCEPT !.op = "define", !.env = env, !.name = name,
                                 !.value = value, !.before = heap]
  /\ UNCHANGED << scanVars, parseVars, flagVars, environment, pc, statements, next,
                  runVars >>

\* env.get(name), given what it returned or threw
Env_Got(env, name, r) ==
  call' = [NoCall EXCEPT !.op = "get", !.env = env, !.name = name, !.before = heap,
                         !.v = r.v, !.ex = r.ex]

\* env.get(name)
Env_Get ==
  /\ pc = "environment"
  /\ \E env \in 1..Len(heap), name \in Names :
       Env_Got(env, name,
               Environment_get(heap, env, Token("IDENTIFIER", name, Nil, 1)))
  /\ UNCHANGED << scanVars, parseVars, flagVars, interpreterVars, pc, statements,
                  next, runVars >>

\* env.assign(name, value), given the objects it left and what it threw
Env_Assigned(env, name, value, r) ==
  /\ heap' = r.h
  /\ call' = [NoCall EXCEPT !.op = "assign", !.env = env, !.name = name,
                            !.value = value, !.before = heap, !.ex = r.ex]

\* env.assign(name, value)
Env_Assign ==
  /\ pc = "environment"
  /\ \E env \in 1..Len(heap), name \in Names, value \in Values :
       Env_Assigned(env, name, value,
                    Environment_assign(heap, env, Token("IDENTIFIER", name, Nil, 1),
                                       value))
  /\ UNCHANGED << scanVars, parseVars, flagVars, environment, pc, statements, next,
                  runVars >>

NextEnvironment == Env_New \/ Env_Define \/ Env_Get \/ Env_Assign

SpecEnvironment == InitEnvironment /\ [][NextEnvironment]_vars

(***************************************************************************)
(* Properties of the Scanner.                                              *)
(***************************************************************************)
Front(s) == SubSeq(s, 1, Len(s) - 1)

\* the tokens of kind EOF among those the scanner holds
EOFTokens == { k \in 1..Len(scanner.tokens) : scanner.tokens[k].type = "EOF" }

\* C2: scanTokens ends on every source, and the token sequence it returns has
\* exactly one token of kind EOF, which is the last one and whose line is 1
\* plus the number of newline characters of the source, those inside strings
\* and after comments included.
C2_OneEOFAtTheLastLine ==
  /\ <>(pc = "scanned")
  /\ [](pc = "scanned" =>
          /\ EOFTokens = { Len(scanner.tokens) }
          /\ scanner.tokens[Len(scanner.tokens)].line
               = 1 + CountOf(scanner.source, NL))

\* a scan that has returned, of a source with a newline inside a string
\* literal and another one after it
C2_NewlineInString ==
  /\ pc = "scanned"
  /\ \E k \in 1..Len(scanner.tokens) :
       /\ scanner.tokens[k].type = "STRING"
       /\ CountOf(scanner.tokens[k].literal.s, NL) = 1
  /\ CountOf(scanner.source, NL) = 2

\* where the scanner reported a message, as offsets into the source
ReportedAt(message) ==
  { badAt[k].at : k \in { j \in 1..Len(badAt) : badAt[j].message = message } }

\* the source with each character reported as unexpected turned into a space,
\* and cut before the quote of a string reported as unterminated
Repaired ==
  LET cut == IF ReportedAt("Unterminated string.") = {} THEN Len(scanner.source)
             ELSE CHOOSE at \in ReportedAt("Unterminated string.") : TRUE
  IN [k \in 1..cut |-> IF (k - 1) \in ReportedAt("Unexpected character.") THEN " "
                       ELSE scanner.source[k]]

\* C3: on an invalid character or an unterminated string the scanner reports
\* one error, makes no token of the offending text and goes on: the tokens
\* before EOF are, with kind, lexeme, literal and line, those of the source
\* in which every invalid character is a space and the unterminated string
\* is left out, and that source scans without an error.
C3_ScannerRecovers ==
  pc = "scanned" =>
    /\ Len(scanner.errors) = Len(badAt)
    /\ Cardinality(ReportedAt("Unexpected character.")
                   \cup ReportedAt("Unterminated string.")) = Len(badAt)
    /\ Cardinality(ReportedAt("Unterminated string.")) <= 1
    /\ scanTokens(Repaired).errors = << >>
    /\ Front(scanner.tokens) = Front(scanTokens(Repaired).tokens)

\* a scan that has returned, with a lexeme before and after an invalid
\* character and an unterminated string at the end
C3_LexemeAfterInvalidCharacter ==
  /\ pc = "scanned"
  /\ ReportedAt("Unexpected character.") = {1}
  /\ ReportedAt("Unterminated string.") = {3}
  /\ Len(scanner.tokens) = 3

(***************************************************************************)
(* Properties of Nova.run and the Interpreter.                             *)
(***************************************************************************)
\* C1: when the scanner or the parser reported a static error for the source
\* passed to run, the interpreter executes no statement of it: no step
\* produces Print output or creates or changes a binding.
C1_StaticErrorSuppressesExecution ==
  [][(pc = "interpreting" /\ stderr # << >>) => (out' = out /\ heap' = heap)]_vars

\* a run whose source the scanner reported an error for, and which printed
C1_PrintedDespiteScannerError ==
  /\ scanner.errors # << >>
  /\ out # << >>

\* C6: once a statement of interpret's list raised a run-time error, no later
\* statement of the list runs, the error was reported exactly once to the
\* run-time error sink, and the run-time-error flag is set.
C6_RuntimeErrorEndsTheRun ==
  raised # << >> =>
    /\ pc = "idle"
    /\ Len(raised) = 1
    /\ next <= Len(statements)
    /\ Len(rtReports) = 1
    /\ hadRuntimeError

\* the exceptions Environment.get and Environment.assign throw
UndefinedVariable(e) ==
  e.message \in { "Unidentified variable ${name.lexeme}.",
                  "Undefined variable ${name.lexeme}" }

\* C7: reading or assigning a variable bound in no scope of the chain raises
\* a RuntimeError carrying the identifier token, which interpret catches once
\* and Nova.runtimeError reports as message and line; hadRuntimeError is set
\* and no further exception leaves interpret.
C7_UndefinedVariableIsRuntimeError ==
  \A k \in 1..Len(raised) :
    UndefinedVariable(raised[k]) =>
      /\ raised[k].kind = "RuntimeError"
      /\ raised[k].token.lexeme = raised[k].arg
      /\ Len(raised) = 1
      /\ rtReports = << [message |-> raised[k].message,
                         line |-> raised[k].token.line] >>
      /\ hadRuntimeError
      /\ escaped.kind = "none"
      /\ pc = "idle"

\* C8: an exception that is neither a RuntimeError nor a ParseError is not
\* handled as a user error: declaration() does not catch it and synchronize,
\* and interpret does not hand it to the run-time error sink.
C8_InternalFaultsAreNotUserErrors ==
  /\ \A k \in 1..Len(parser.syncs) : parser.syncs[k].caught = "ParseError"
  /\ \A k \in 1..Len(sinkArgs) : sinkArgs[k].kind = "RuntimeError"

\* C9: every executeBlock call, nested or not, with its statements completed
\* or not, leaves the current environment the one it found; so between the
\* statements of interpret and after it, with or without an error, the
\* current environment is the top-level one.
C9_BlockRestoresEnvironment ==
  /\ environment = 1
  /\ Len(heap) = 1
  /\ \A k \in 1..Len(blockLog) :
       blockLog[k].event = "exit" => blockLog[k].now = blockLog[k].previous
  /\ Cardinality({ k \in 1..Len(blockLog) : blockLog[k].event = "enter" })
       = Cardinality({ k \in 1..Len(blockLog) : blockLog[k].event = "exit" })

\* a block inside a block was left by a RuntimeError
C9_NestedBlockRaised ==
  /\ \E k \in 1..Len(blockLog) :
       blockLog[k].event = "exit" /\ blockLog[k].previous = 2
  /\ raised # << >>
  /\ raised[1].kind = "RuntimeError"

\* var a="outer";{var a="inner";print a;}print a;
ShadowingProgram == Fragment1 \o Fragment2 \o Fragment3 \o Fragment4 \o Fragment3

\* the name a block declares in its first statement
DeclaredFirst(stmt) ==
  IF stmt.statements # << >> /\ stmt.statements[1].node = "Var"
  THEN { stmt.statements[1].name.lexeme }
  ELSE {}

\* C10: a Var declaration in a block binds in the block's scope only.  A block
\* executed at top level leaves the names bound at top level as they were, a
\* name it declares first keeps the outer value it had, and the scope of the
\* block is gone; the program above prints inner, then outer.
C10_BlockScopedVar ==
  /\ []((source = ShadowingProgram /\ pc = "idle") =>
          out = << <<"i","n","n","e","r">>, <<"o","u","t","e","r">> >>)
  /\ [][(pc = "interpreting" /\ statements[next].node = "Block") =>
          /\ Len(heap') = Len(heap)
          /\ DOMAIN heap'[1].values = DOMAIN heap[1].values
          /\ \A x \in DeclaredFirst(statements[next]) \cap DOMAIN heap[1].values :
               heap'[1].values[x] = heap[1].values[x]]_vars

\* the program above has run to its end
C10_ShadowingProgramRan ==
  /\ source = ShadowingProgram
  /\ pc = "idle"
  /\ Len(blockLog) = 2
  /\ Len(out) = 2

(***************************************************************************)
(* Properties of the Parser.                                               *)
(***************************************************************************)
\* whether the token at offset j is where synchronize() stops
IsBoundary(tokens, j) ==
  \/ tokens[j + 1].type = "EOF"
  \/ tokens[j].type = "SEMICOLON"
  \/ tokens[j + 1].type \in StartsStatement

\* the first boundary after the token at offset t, or t at EOF
SyncTarget(tokens, t) ==
  IF tokens[t + 1].type = "EOF" THEN t
  ELSE CHOOSE j \in (t + 1)..(Len(tokens) - 1) :
         /\ IsBoundary(tokens, j)
         /\ \A i \in (t + 1)..(j - 1) : ~IsBoundary(tokens, i)

\* the first boundary at or after the token at offset t: that token when it
\* is a statement keyword or EOF
BoundaryAtOrAfter(tokens, t) ==
  IF tokens[t + 1].type \in StartsStatement \cup {"EOF"} THEN t
  ELSE SyncTarget(tokens, t)

\* how many statements the first k iterations of parse()'s loop pushed
Pushed(k) == Cardinality({ j \in 1..k : declLog[j].pushed })

\* the tokens from offset j on
TokensFrom(j) == SubSeq(parser.tokens, j + 1, Len(parser.tokens))

\* C4 as amended: parse() never throws on a token list the Scanner made.  A
\* declaration() call of its loop that ends in the catch block pushes nothing
\* and leaves the cursor where synchronize() stopped: the token the error was
\* reported at is discarded, and then the tokens up to the first boundary
\* (after a ';', before a statement keyword, or EOF).  The statements parse()
\* returns for the tokens from there on are the ones it returns for those
\* tokens alone, in the same order.
C4_ParseRecovers ==
  /\ pc # "crashed"
  /\ escaped.kind = "none"
  /\ \A k \in 1..Len(parser.syncs) :
       /\ parser.syncs[k].from = parser.syncs[k].error
       /\ parser.syncs[k].to = SyncTarget(parser.tokens, parser.syncs[k].error)
  /\ \A k \in 1..Len(declLog) :
       ~declLog[k].pushed =>
         /\ declLog[k].syncs >= 1
         /\ declLog[k].to = parser.syncs[declLog[k].lastSync].to
  /\ pc = "parsed" =>
       \A k \in 1..Len(declLog) :
         SubSeq(statements, Pushed(k) + 1, Len(statements))
           = parse(TokensFrom(declLog[k].to)).v

\* parse() has returned a statement parsed after a recovery that discarded a
\* statement keyword
C4_StatementAfterRecovery ==
  /\ pc = "parsed"
  /\ Len(declLog) = 2
  /\ ~declLog[1].pushed
  /\ declLog[2].pushed
  /\ parser.tokens[parser.syncs[1].error + 1].type \in StartsStatement

\* C4: parse() never aborts on a malformed statement; the malformed statement
\* contributes no statement to the list, and parsing resumes at the next
\* statement boundary, from which every well-formed statement is returned.
C4_MalformedStatementIsolated ==
  /\ pc # "crashed"
  /\ \A k \in 1..Len(declLog) :
       (declLog[k].reports > 0 /\ declLog[k].syncs = 0) => ~declLog[k].pushed
  /\ \A k \in 1..Len(parser.syncs) :
       parser.syncs[k].to = BoundaryAtOrAfter(parser.tokens, parser.syncs[k].error)

\* the reports of an invalid assignment target, which throw nothing
InvalidTargets ==
  { k \in 1..Len(parser.reports) :
      parser.reports[k].message = "Invalid assignment target." }

\* a token list of two statements, each ended by ';', each rejected when
\* parsed alone, with no '=', no brace and no statement keyword
TwoPlainMalformed(tokens) ==
  LET semis == { k \in 1..Len(tokens) : tokens[k].type = "SEMICOLON" }
      first == CHOOSE k \in semis : \A j \in semis : k <= j
  IN /\ Cardinality(semis) = 2
     /\ Len(tokens) - 1 \in semis
     /\ \A k \in 1..Len(tokens) :
          tokens[k].type \notin StartsStatement \cup {"EQUAL", "LEFT_BRACE", "RIGHT_BRACE"}
     /\ parse(Append(SubSeq(tokens, 1, first), tokens[Len(tokens)])).p.reports # << >>
     /\ parse(SubSeq(tokens, first + 1, Len(tokens))).p.reports # << >>

\* C5 as amended: every report but that of an invalid assignment target is
\* followed by one recovery, and no token skipped in a recovery is reported;
\* an invalid assignment target is reported without a recovery, so that a
\* statement may be reported once for each and once more for a later fault.
\* Two malformed statements, each ended by ';' and holding no '=', brace or
\* statement keyword, yield exactly two reports and no statement.
C5_OneReportPerRecovery ==
  /\ Len(parser.reports) = Len(parser.syncs) + Cardinality(InvalidTargets)
  /\ \A k \in 1..Len(parser.syncs) : \A r \in 1..Len(parser.reports) :
       ~(/\ parser.syncs[k].error < parser.reports[r].index
         /\ parser.reports[r].index < parser.syncs[k].to)
  /\ (pc = "parsed" /\ TwoPlainMalformed(parser.tokens)) =>
       /\ Len(parser.reports) = 2
       /\ statements = << >>
       /\ hadError

\* parse() has returned for two such statements, and for a statement reported
\* for its assignment target and then for a later fault
C5_TwoReportsOfTwoStatements ==
  /\ pc = "parsed"
  /\ \/ TwoPlainMalformed(parser.tokens)
     \/ /\ Len(declLog) = 1
        /\ InvalidTargets = {1}
        /\ Len(parser.reports) = 2

\* C5: each broken statement produces exactly one report: an iteration of
\* parse()'s loop that recovers at most once, so that it holds one broken
\* statement at most, reports at most once; and two malformed statements, each
\* ended by ';', yield exactly two reports and no statement.
C5_OneReportPerStatement ==
  /\ \A k \in 1..Len(declLog) : declLog[k].syncs <= 1 => declLog[k].reports <= 1
  /\ (pc = "parsed"
      /\ Cardinality({ k \in 1..Len(parser.tokens) :
                         parser.tokens[k].type = "SEMICOLON" }) = 2
      /\ parser.tokens[Len(parser.tokens) - 1].type = "SEMICOLON"
      /\ Len(declLog) = 2 /\ declLog[1].reports > 0 /\ declLog[2].reports > 0) =>
       Len(parser.reports) = 2 /\ statements = << >>

(***************************************************************************)
(* Properties of the Environment.                                          *)
(***************************************************************************)
\* the scopes of env's chain, innermost first
RECURSIVE Chain(_, _)
Chain(h, env) == IF env = 0 THEN << >> ELSE << env >> \o Chain(h, h[env].enclosing)

\* the places in env's chain of the scopes that bind name
Binders(h, env, name) ==
  { k \in 1..Len(Chain(h, env)) : name \in DOMAIN h[Chain(h, env)[k]].values }

\* the innermost scope of env's chain that binds name
Innermost(h, env, name) ==
  Chain(h, env)[CHOOSE k \in Binders(h, env, name) :
                  \A j \in Binders(h, env, name) : k <= j]

\* C11: get(name) returns the value bound to name in the innermost scope of
\* the chain that binds it, also when that value is nil, and changes no scope.
C11_GetReturnsInnermost ==
  (call.op = "get" /\ Binders(call.before, call.env, call.name) # {}) =>
    /\ call.ex.kind = "none"
    /\ call.v = call.before[Innermost(call.before, call.env, call.name)].values[call.name]
    /\ heap = call.before

\* get returned nil from an enclosing scope while a scope further out binds
\* the name to another value
C11_NilFromEnclosingScope ==
  /\ call.op = "get"
  /\ call.v = Nil
  /\ call.ex.kind = "none"
  /\ Cardinality(Binders(call.before, call.env, call.name)) = 2
  /\ 1 \notin Binders(call.before, call.env, call.name)
  /\ \E k \in Binders(call.before, call.env, call.name) :
       call.before[Chain(call.before, call.env)[k]].values[call.name] # Nil

\* C12: assign(name, value) changes exactly the binding of name in the
\* innermost scope of the chain that binds it: every other binding and the
\* names of every scope stay; when no scope binds name the call throws and no
\* scope is modified.
C12_AssignChangesOneBinding ==
  call.op = "assign" =>
    IF Binders(call.before, call.env, call.name) = {}
    THEN call.ex.kind # "none" /\ heap = call.before
    ELSE /\ call.ex.kind = "none"
         /\ Len(heap) = Len(call.before)
         /\ \A k \in 1..Len(heap) :
              /\ heap[k].enclosing = call.before[k].enclosing
              /\ DOMAIN heap[k].values = DOMAIN call.before[k].values
              /\ \A x \in DOMAIN heap[k].values :
                   heap[k].values[x] =
                     IF k = Innermost(call.before, call.env, call.name) /\ x = call.name
                     THEN call.value
                     ELSE call.before[k].values[x]

\* assign changed a binding of an enclosing scope, with the name bound further
\* out as well and another name bound in the scope it was called on
C12_AssignedInEnclosingScope ==
  /\ call.op = "assign"
  /\ call.ex.kind = "none"
  /\ heap # call.before
  /\ Cardinality(Binders(call.before, call.env, call.name)) = 2
  /\ 1 \notin Binders(call.before, call.env, call.name)
  /\ DOMAIN call.before[call.env].values # {}

\* C13: define(name, value) always succeeds and writes only the scope it is
\* called on: that scope then maps name to value, its other bindings stay,
\* and every other scope, an enclosing one that binds name included, stays.
C13_DefineWritesOnlyItsScope ==
  call.op = "define" =>
    /\ call.ex.kind = "none"
    /\ Len(heap) = Len(call.before)
    /\ \A k \in 1..Len(heap) : k # call.env => heap[k] = call.before[k]
    /\ heap[call.env].enclosing = call.before[call.env].enclosing
    /\ DOMAIN heap[call.env].values =
         DOMAIN call.before[call.env].values \cup {call.name}
    /\ heap[call.env].values[call.name] = call.value
    /\ \A x \in DOMAIN call.before[call.env].values :
         x # call.name => heap[call.env].values[x] = call.before[call.env].values[x]

\* define replaced a binding in a scope whose enclosing scope binds the same
\* name
C13_RedefinedUnderEnclosingBinding ==
  /\ call.op = "define"
  /\ call.name \in DOMAIN call.before[call.env].values
  /\ call.before[call.env].values[call.name] # call.value
  /\ call.before[call.env].enclosing # 0
  /\ call.name \in DOMAIN call.before[call.before[call.env].enclosing].values

(***************************************************************************)
(* Properties of the for statement.                                        *)
(***************************************************************************)
\* the parts of the for statement the parser was given
GivenFor == CHOOSE parts \in ForParts :
              parser.tokens = scanTokens(ForText(parts)).tokens

\* a part parsed on its own: the statement of a text, the expression of a text
StatementOf(text) == parse(scanTokens(text).tokens).v[1]
ExpressionOf(text) == expression(NewParser(scanTokens(text).tokens)).v

ForInitializer ==
  IF GivenFor.initializer = << ";" >> THEN << >>
  ELSE << StatementOf(GivenFor.initializer) >>
ForCondition ==
  IF GivenFor.condition = << >> THEN LiteralExpr(Bool(TRUE))
  ELSE ExpressionOf(GivenFor.condition)
ForIncrement ==
  IF GivenFor.increment = << >> THEN << >>
  ELSE << ExpressionStmt(ExpressionOf(GivenFor.increment)) >>
ForBody == StatementOf(GivenFor.body)

ThisInterpreter ==
  [heap |-> heap, environment |-> environment, out |-> out, blockLog |-> blockLog]

\* interpret() is about to execute a Print statement of an expression of this
\* node type
Printing(node) ==
  /\ pc = "interpreting"
  /\ statements[next].node = "Print"
  /\ statements[next].expression.node = node

\* the step prints this value and raises nothing
Prints(value) == out' = Append(out, stringify(value)) /\ raised' = raised

\* the step prints nothing and ends in interpret()'s catch block with a
\* RuntimeError of this token, reported at the token's line
RaisesAt(token) ==
  /\ out' = out
  /\ Len(raised') = Len(raised) + 1
  /\ raised'[Len(raised')].kind = "RuntimeError"
  /\ raised'[Len(raised')].token = token
  /\ Len(rtReports') = Len(rtReports) + 1
  /\ rtReports'[Len(rtReports')].line = token.line
  /\ hadRuntimeError'

\* the digits 0..9 as they are printed
Digit(k) == << DigitChar(k) >>

\* C14: a for statement runs its initializer once, then condition, body,
\* increment, condition, ... and ends the first time the condition is falsy:
\* for (var i = n; i < m; i = i + 1) print i; prints n, n+1, ..., m-1 and
\* nothing else, so with n = 0 and m = 3 exactly 0, 1, 2.
C14_ForPrintsInOrder ==
  \A n \in 0..2, m \in 0..3 :
    (source = ForLine(Digit(n), Digit(m)) /\ pc # "interpreting") =>
      /\ pc = "idle"
      /\ raised = << >>
      /\ out = [k \in 1..(IF m > n THEN m - n ELSE 0) |-> Digit(n + k - 1)]

\* the for statement of the claim has run and printed 0, 1, 2
C14_ForPrinted012 ==
  /\ source = << "f", "o", "r", "(", "v", "a", "r", " ", "i", "=", "0", ";", "i", "<", "3", ";", "i", "=", "i", "+", "1", ")", "p", "r", "i", "n", "t", " ", "i", ";" >>
  /\ pc = "idle"
  /\ out = << <<"0">>, <<"1">>, <<"2">> >>

\* whether a logical operator returns its left operand, of this value
ShortCircuits(operator, left) ==
  IF operator.type = "OR" THEN isTruthy(left) ELSE ~isTruthy(left)

\* C16: or and and evaluate the left operand once; or with a truthy left and
\* and with a falsy left give the left value and do not evaluate the right
\* operand (the step leaves everything as the left operand left it);
\* otherwise the result is what the right operand gives.  The result is the
\* operand's value, not a boolean.
C16_LogicalShortCircuits ==
  [][Printing("Logical") =>
       LET e == statements[next].expression
           l == evaluate(ThisInterpreter, e.left)
           r == evaluate(l.i, e.right)
       IN Returned(l) =>
            IF ShortCircuits(e.operator, l.v)
            THEN Prints(l.v) /\ heap' = l.i.heap
            ELSE /\ heap' = r.i.heap
                 /\ IF Returned(r) THEN Prints(r.v)
                    ELSE out' = out /\ raised' = Append(raised, r.ex)]_vars

\* a line whose or returned its truthy left operand has printed that operand
\* and left a as it was, the assignment on the right not made
C16_AssignmentSkipped ==
  /\ source = << "v", "a", "r", " ", "a", "=", "1", ";", "p", "r", "i", "n", "t", " ", QUOTE, "a", QUOTE, " ", "o", "r", " ", "(", "a", "=", "a", "+", "1", ")", ";", "p", "r", "i", "n", "t", " ", "a", ";" >>
  /\ pc = "idle"
  /\ out = << <<"a">>, <<"1">> >>

\* the binary operators whose operands must be numbers
NumberOperators ==
  { "MINUS", "STAR", "SLASH", "GREATER", "GREATER_EQUAL", "LESS", "LESS_EQUAL" }

\* C17: for -, *, /, >, >=, <, <= an operand value that is no number raises a
\* run-time error carrying the operator's token, and the Print statement
\* prints nothing; so does unary - on a value that is no number; unary !
\* raises nothing and prints a boolean.
C17_NumberOperandsChecked ==
  [][/\ (Printing("Binary") /\ statements[next].expression.operator.type \in NumberOperators) =>
          LET e == statements[next].expression
              l == evaluate(ThisInterpreter, e.left)
              r == evaluate(l.i, e.right)
          IN (Returned(l) /\ Returned(r)) =>
               IF l.v.kind = "number" /\ r.v.kind = "number"
               THEN raised' = raised /\ Len(out') = Len(out) + 1
               ELSE RaisesAt(e.operator)
     /\ Printing("Unary") =>
          LET e == statements[next].expression
              x == evaluate(ThisInterpreter, e.right)
          IN Returned(x) =>
               IF e.operator.type = "BANG" THEN Prints(Bool(~isTruthy(x.v)))
               ELSE IF x.v.kind = "number" THEN raised' = raised /\ Len(out') = Len(out) + 1
               ELSE RaisesAt(e.operator)]_vars

\* print "a" - 1; has raised a run-time error at the - and printed nothing
C17_StringMinusNumberRaised ==
  /\ source = << "p", "r", "i", "n", "t", " ", QUOTE, "a", QUOTE, "-", "1", ";" >>
  /\ pc = "idle"
  /\ out = << >>
  /\ Len(raised) = 1
  /\ raised[1].kind = "RuntimeError"
  /\ raised[1].token.type = "MINUS"
  /\ Len(rtReports) = 1

\* C18: + gives the sum of two numbers and the concatenation, left then
\* right, of two strings; for every other pair of operand kinds it raises
\* the run-time error "Operands must be two numbers or two strings." with the
\* token of the +.
C18_PlusOnNumbersOrStrings ==
  [][(Printing("Binary") /\ statements[next].expression.operator.type = "PLUS") =>
       LET e == statements[next].expression
           l == evaluate(ThisInterpreter, e.left)
           r == evaluate(l.i, e.right)
       IN (Returned(l) /\ Returned(r)) =>
            IF l.v.kind = "number" /\ r.v.kind = "number"
            THEN /\ raised' = raised
                 /\ Len(out') = Len(out) + 1
                 /\ (l.v.d # 0 /\ r.v.d # 0) =>
                      Prints(Num(l.v.n * r.v.d + r.v.n * l.v.d, l.v.d * r.v.d))
            ELSE IF l.v.kind = "string" /\ r.v.kind = "string"
            THEN Prints(Str(l.v.s \o r.v.s))
            ELSE /\ RaisesAt(e.operator)
                 /\ raised'[Len(raised')].message
                      = "Operands must be two numbers or two strings."]_vars

\* a + of a number and a string has raised, and printed nothing
C18_NumberPlusStringRaised ==
  /\ source = << "p", "r", "i", "n", "t", " ", "1", "+", QUOTE, "a", QUOTE, ";" >>
  /\ pc = "idle"
  /\ out = << >>
  /\ Len(raised) = 1
  /\ raised[1].token.type = "PLUS"

(***************************************************************************)
(* Properties of the prompt.                                               *)
(***************************************************************************)
\* whether a statement or expression holds a Var statement or an assignment
\* of the name x
RECURSIVE Writes(_, _)
Writes(node, x) ==
  CASE node.node = "Var" -> node.name.lexeme = x \/ Writes(node.initializer, x)
    [] node.node = "Assign" -> node.name.lexeme = x \/ Writes(node.value, x)
    [] node.node = "Block" ->
         \E k \in 1..Len(node.statements) : Writes(node.statements[k], x)
    [] node.node \in {"Expression", "Print", "Grouping"} -> Writes(node.expression, x)
    [] node.node = "If" ->
         \/ Writes(node.condition, x)
         \/ Writes(node.thenBranch, x)
         \/ Writes(node.elseBranch, x)
    [] node.node = "While" -> Writes(node.condition, x) \/ Writes(node.body, x)
    [] node.node \in {"Binary", "Logical"} -> Writes(node.left, x) \/ Writes(node.right, x)
    [] node.node = "Unary" -> Writes(node.right, x)
    [] OTHER -> FALSE

\* C20: the lines of one prompt share one top-level environment.  Between
\* lines the current environment is the top-level one; reading, scanning and
\* parsing a line changes no binding; a top-level binding is never removed,
\* not by a run-time error either, and changes its value only in a statement
\* that declares or assigns its name; a later line that prints the name
\* prints the value the binding has.
C20_BindingsPersist ==
  /\ [](pc = "idle" => environment = 1)
  /\ [][/\ pc = "idle" => heap' = heap
        /\ \A x \in DOMAIN heap[1].values :
             /\ x \in DOMAIN heap'[1].values
             /\ heap'[1].values[x] # heap[1].values[x] =>
                  pc = "interpreting" /\ Writes(statements[next], x)
             /\ (/\ Printing("Variable")
                 /\ statements[next].expression.name.lexeme = x
                 /\ environment = 1) => Prints(heap[1].values[x])]_vars

\* the second line has printed the value the first line bound, the first
\* line having ended in a run-time error after the declaration
C20_PrintedBindingOfEarlierLine ==
  /\ inputs = 2
  /\ source = << "p", "r", "i", "n", "t", " ", "a", ";" >>
  /\ pc = "idle"
  /\ out = << << "o", "u", "t", "e", "r" >> >>
  /\ hadRuntimeError

(***************************************************************************)
(* Properties of synchronize().                                            *)
(***************************************************************************)
\* the type of the token at offset j of the parser's list
TypeAt(j) == parser.tokens[j + 1].type

\* C21 as amended: synchronize() is entered with the cursor at the token t
\* the error was reported at.  When t is EOF the cursor stays; otherwise t is
\* discarded, a statement keyword included, and the cursor is left at the
\* first offset after t that follows a ';', holds a statement keyword or holds
\* EOF: no token between is such an offset, so no statement keyword after t
\* is discarded.
C21_SynchronizeDiscardsErrorToken ==
  \A k \in 1..Len(parser.syncs) :
    LET t == parser.syncs[k].error
        to == parser.syncs[k].to
    IN /\ parser.syncs[k].from = t
       /\ IF TypeAt(t) = "EOF" THEN to = t
          ELSE /\ to > t
               /\ \/ TypeAt(to) \in StartsStatement \cup {"EOF"}
                  \/ TypeAt(to - 1) = "SEMICOLON"
               /\ \A j \in (t + 1)..(to - 1) :
                    /\ TypeAt(j) \notin StartsStatement \cup {"EOF"}
                    /\ TypeAt(j - 1) # "SEMICOLON"

\* a recovery from an error at a statement keyword has discarded the keyword
\* and the tokens after it up to a ';'
C21_KeywordDiscarded ==
  \E k \in 1..Len(parser.syncs) :
    /\ TypeAt(parser.syncs[k].error) \in StartsStatement
    /\ parser.syncs[k].to >= parser.syncs[k].error + 2
    /\ TypeAt(parser.syncs[k].to - 1) = "SEMICOLON"

\* C21: synchronize() leaves the parser at the first statement boundary at
\* or after the error token t (after a consumed ';' or at a statement
\* keyword): no token that starts a statement is discarded, and when t is
\* such a keyword the cursor stays at t.
C21_NoStatementStartDiscarded ==
  \A k \in 1..Len(parser.syncs) :
    LET t == parser.syncs[k].error
        to == parser.syncs[k].to
    IN /\ TypeAt(t) \in StartsStatement => to = t
       /\ \A j \in t..(to - 1) : TypeAt(j) \notin StartsStatement

(***************************************************************************)
(* Properties of an invalid assignment target.                             *)
(***************************************************************************)
\* the offsets reported in the k-th iteration of parse()'s loop
ReportedIn(k) ==
  { parser.reports[r].index : r \in { r \in 1..Len(parser.reports) :
      /\ declLog[k].from <= parser.reports[r].index
      /\ parser.reports[r].index < declLog[k].to } }

\* the first of them
FirstReportedIn(k) == CHOOSE e \in ReportedIn(k) : \A j \in ReportedIn(k) : e <= j

\* where the right-hand side of the '=' at offset e ends
RightEnd(e) == assignment([parser EXCEPT !.current = e + 1]).p.current

\* the tokens of the k-th iteration and after, less that '=' and its
\* right-hand side
WithoutAssignment(k) ==
  SubSeq(parser.tokens, declLog[k].from + 1, FirstReportedIn(k))
    \o SubSeq(parser.tokens, RightEnd(FirstReportedIn(k)) + 1, Len(parser.tokens))

\* C22: a target of '=' that is no Variable is reported once, at the '=';
\* the report throws nothing and no synchronize() follows it; the statement
\* is returned with the left-hand expression in the place of the assignment,
\* as if the '=' and its right-hand side were not there, the cursor being
\* where the right-hand side and the rest of the statement end.  So
\* '1 = x;' is reported at its '=' and returned as the expression statement 1.
C22_InvalidTargetReportedAndKept ==
  /\ \A r \in InvalidTargets :
       /\ TypeAt(parser.reports[r].index) = "EQUAL"
       /\ \A q \in InvalidTargets :
            parser.reports[q].index = parser.reports[r].index => q = r
       /\ \A k \in 1..Len(parser.syncs) :
            parser.syncs[k].error # parser.reports[r].index
  /\ \A k \in 1..Len(declLog) :
       (declLog[k].syncs = 0 /\ declLog[k].reports > 0) =>
         /\ declLog[k].pushed
         /\ statements[Pushed(k)] = declaration(NewParser(WithoutAssignment(k))).v
         /\ declLog[k].to - declLog[k].from =
              declaration(NewParser(WithoutAssignment(k))).p.current
                + RightEnd(FirstReportedIn(k)) - FirstReportedIn(k)
  /\ (/\ pc = "parsed"
      /\ Len(parser.tokens) = 5
      /\ TypeAt(0) = "NUMBER"
      /\ TypeAt(1) = "EQUAL"
      /\ TypeAt(2) \in {"NUMBER", "IDENTIFIER"}
      /\ TypeAt(3) = "SEMICOLON") =>
       /\ Len(parser.reports) = 1
       /\ parser.reports[1].index = 1
       /\ parser.reports[1].message = "Invalid assignment target."
       /\ parser.syncs = << >>
       /\ statements = << ExpressionStmt(LiteralExpr(parser.tokens[1].literal)) >>

\* parse() has returned a Print statement whose expression was the target
\* of a reported '='
C22_PrintWithInvalidTargetKept ==
  /\ pc = "parsed"
  /\ InvalidTargets # {}
  /\ parser.syncs = << >>
  /\ Len(statements) = 1
  /\ statements[1].node = "Print"

(***************************************************************************)
(* Precedence and associativity.                                           *)
(***************************************************************************)
\* the levels of the infix operators, lowest first
LevelOf(type) ==
  CASE type = "EQUAL" -> 0
    [] type = "OR" -> 1
    [] type = "AND" -> 2
    [] type \in {"BANG_EQUAL", "EQUAL_EQUAL"} -> 3
    [] type \in {"GREATER", "GREATER_EQUAL", "LESS", "LESS_EQUAL"} -> 4
    [] type \in {"PLUS", "MINUS"} -> 5
    [] type \in {"SLASH", "STAR"} -> 6

\* the operand that starts at offset j: a name, or a unary operator and a name
OperandAt(j) ==
  IF TypeAt(j) \in {"MINUS", "BANG"}
  THEN [e |-> UnaryExpr(parser.tokens[j + 1], VariableExpr(parser.tokens[j + 2])),
        next |-> j + 2]
  ELSE [e |-> VariableExpr(parser.tokens[j + 1]), next |-> j + 1]

Joined(left, operator, right) ==
  IF operator.type \in {"OR", "AND"} THEN LogicalExpr(left, operator, right)
  ELSE BinaryExpr(left, operator, right)

\* target = value, where a target that is no name is kept as it is
Assigned(target, value) ==
  IF target.node = "Variable" THEN AssignExpr(target.name, value) ELSE target

\* x o1 y o2 z read by the levels alone
Grouped(x, o1, y, o2, z) ==
  IF o1.type = "EQUAL"
  THEN Assigned(x, IF o2.type = "EQUAL" THEN Assigned(y, z) ELSE Joined(y, o2, z))
  ELSE IF o2.type = "EQUAL" THEN Joined(x, o1, y)
  ELSE IF LevelOf(o1.type) >= LevelOf(o2.type) THEN Joined(Joined(x, o1, y), o2, z)
  ELSE Joined(x, o1, Joined(y, o2, z))

ByLevels ==
  LET x == OperandAt(0)
      y == OperandAt(x.next + 1)
      z == OperandAt(y.next + 1)
  IN Grouped(x.e, parser.tokens[x.next + 1], y.e, parser.tokens[y.next + 1], z.e)

\* C23: of two infix operators in a row the one of the higher level takes the
\* operand between them, with the levels  = < or < and < equality <
\* comparison < term < factor  and a unary operator above them all; two
\* operators of one level group to the left, two '=' to the right
C23_PrecedenceAndAssociativity ==
  pc = "parsed" => statements = << ExpressionStmt(ByLevels) >>

\* a + b * c, or another term whose right operand is a factor, was parsed
C23_FactorInsideTerm ==
  /\ pc = "parsed"
  /\ Len(statements) = 1
  /\ statements[1].expression.node = "Binary"
  /\ statements[1].expression.operator.type = "PLUS"
  /\ statements[1].expression.right.node = "Binary"
  /\ statements[1].expression.right.operator.type = "STAR"

(***************************************************************************)
(* Properties of number().                                                 *)
(***************************************************************************)
\* the tokens pushed so far that are no EOF
Lexed == SelectSeq(scanner.tokens, LAMBDA t : t.type # "EOF")

\* the scanner has returned the tokens of this text
Scanned(text) == pc = "scanned" /\ scanner.source = text

\* the types and the lexemes of the tokens
Lexemes == [k \in 1..Len(scanner.tokens) |->
              << scanner.tokens[k].type, scanner.tokens[k].lexeme >>]

\* C24: a NUMBER lexeme is made of digits and at most one '.', and begins
\* and ends with a digit; in a text of digits, '.' and letters no character
\* is dropped, the digits of a number are taken as far as they go and a '.'
\* between digits belongs to the number unless the number has one already.
\* So '2.' is NUMBER 2, DOT; '.5' is DOT, NUMBER 5; '1.2.3' is NUMBER 1.2,
\* DOT, NUMBER 3.
C24_NumberLexemes ==
  /\ \A k \in 1..Len(Lexed) :
       LET t == Lexed[k]
       IN /\ t.type \in {"NUMBER", "DOT", "IDENTIFIER"}
          /\ t.type = "NUMBER" =>
               /\ Len(t.lexeme) >= 1
               /\ isDigit(t.lexeme[1])
               /\ isDigit(t.lexeme[Len(t.lexeme)])
               /\ \A j \in 1..Len(t.lexeme) : isDigit(t.lexeme[j]) \/ t.lexeme[j] = "."
               /\ CountOf(t.lexeme, ".") <= 1
               /\ t.literal = Number(t.lexeme)
               /\ k < Len(Lexed) => Lexed[k + 1].type # "NUMBER"
               /\ (k + 2 <= Len(Lexed) /\ Lexed[k + 1].type = "DOT"
                     /\ Lexed[k + 2].type = "NUMBER") => CountOf(t.lexeme, ".") = 1
          /\ t.type = "DOT" => t.lexeme = << "." >>
          /\ t.type = "IDENTIFIER" => isAlpha(t.lexeme[1])
  /\ Flatten([k \in 1..Len(Lexed) |-> Lexed[k].lexeme])
       = slice(scanner.source, 0, scanner.current)
  /\ Scanned(<< "2", "." >>) =>
       Lexemes = << << "NUMBER", << "2" >> >>, << "DOT", << "." >> >>, << "EOF", << >> >> >>
  /\ Scanned(<< ".", "5" >>) =>
       Lexemes = << << "DOT", << "." >> >>, << "NUMBER", << "5" >> >>, << "EOF", << >> >> >>
  /\ Scanned(<< "1", ".", "2", ".", "3" >>) =>
       /\ Lexemes = << << "NUMBER", << "1", ".", "2" >> >>, << "DOT", << "." >> >>,
                       << "NUMBER", << "3" >> >>, << "EOF", << >> >> >>
       /\ scanner.tokens[1].literal = Num(12, 10)

\* '1.2.3' has been scanned
C24_ScannedTwoDots == Scanned(<< "1", ".", "2", ".", "3" >>) /\ Len(scanner.tokens) = 4

(***************************************************************************)
(* Properties of string().                                                 *)
(***************************************************************************)
\* the offsets of the quotes after the one at the cursor
ClosingQuotes ==
  { j \in (scanner.current + 1)..(Len(scanner.source) - 1) : scanner.source[j + 1] = QUOTE }

\* the scanner is about to scan the token that starts at a quote
AtQuote ==
  /\ pc = "scanning"
  /\ ~Scanner_isAtEnd(scanner)
  /\ Scanner_peek(scanner) = QUOTE

UnterminatedReported ==
  \E k \in 1..Len(scanner.errors) : scanner.errors[k].message = "Unterminated string."

\* C25: the token that starts at a quote with a later quote in the text is
\* one STRING token that ends at the first such quote, its literal the text
\* between the two and the line counter advanced by the newlines in it; with
\* no later quote the text is consumed to its end, 'Unterminated string.' is
\* reported, no token is made, and the one token made after that is EOF.
C25_StringTokens ==
  /\ [][AtQuote =>
          IF ClosingQuotes = {}
          THEN /\ scanner'.tokens = scanner.tokens
               /\ scanner'.current = Len(scanner.source)
               /\ scanner'.line = scanner.line
                    + CountOf(slice(scanner.source, scanner.current, Len(scanner.source)), NL)
               /\ scanner'.errors = Append(scanner.errors,
                    [line |-> scanner'.line, message |-> "Unterminated string."])
          ELSE LET close == CHOOSE j \in ClosingQuotes : \A q \in ClosingQuotes : j <= q
                   between == slice(scanner.source, scanner.current + 1, close)
               IN /\ scanner'.line = scanner.line + CountOf(between, NL)
                  /\ scanner'.tokens = Append(scanner.tokens,
                       Token("STRING", << QUOTE >> \o between \o << QUOTE >>,
                             Str(between), scanner'.line))
                  /\ scanner'.current = close + 1
                  /\ scanner'.errors = scanner.errors]_vars
  /\ [][UnterminatedReported =>
          /\ pc' = "scanned"
          /\ Len(scanner'.tokens) = Len(scanner.tokens) + 1
          /\ scanner'.tokens[Len(scanner'.tokens)].type = "EOF"
          /\ SubSeq(scanner'.tokens, 1, Len(scanner.tokens)) = scanner.tokens]_vars

\* a text with a terminated string and then an unterminated one was scanned
C25_TerminatedThenUnterminated ==
  /\ pc = "scanned"
  /\ UnterminatedReported
  /\ \E k \in 1..Len(scanner.tokens) : scanner.tokens[k].type = "STRING"

(***************************************************************************)
(* Truthiness.                                                             *)
(***************************************************************************)
\* the literals of the condition lines: the text, the value, and what print
\* writes for it
Conditions ==
  { [text |-> << "n", "i", "l" >>, value |-> Nil, printed |-> << "n", "i", "l" >>],
    [text |-> << "f", "a", "l", "s", "e" >>, value |-> Bool(FALSE),
     printed |-> << "f", "a", "l", "s", "e" >>],
    [text |-> << "t", "r", "u", "e" >>, value |-> Bool(TRUE),
     printed |-> << "t", "r", "u", "e" >>],
    [text |-> << "0" >>, value |-> Num(0, 1), printed |-> << "0" >>],
    [text |-> << "1" >>, value |-> Num(1, 1), printed |-> << "1" >>],
    [text |-> << QUOTE, QUOTE >>, value |-> Str(<< >>), printed |-> << >>],
    [text |-> << QUOTE, "a", QUOTE >>, value |-> Str(<< "a" >>), printed |-> << "a" >>] }

\* nil and false, and nothing else
Falsy(value) == value = Nil \/ value = Bool(FALSE)

\* the line has been run to its end
Ran(line) == source = line /\ pc = "idle"

\* C26: isTruthy answers for every value, false for nil and false and true
\* for every other value, 0 and "" among them; If, While, '!' and the
\* logical operators all go by it: if (x) takes the then-branch, while (x)
\* enters its body, !x is false, x or y gives x and x and y gives y exactly
\* when x is neither nil nor false.
C26_OneTruthinessRule ==
  \A x \in Conditions :
    /\ isTruthy(x.value) = ~Falsy(x.value)
    /\ Ran(IfLine(x.text)) =>
         out = << IF Falsy(x.value) THEN << "e" >> ELSE << "t" >> >>
    /\ Ran(WhileLine(x.text)) =>
         out = IF Falsy(x.value) THEN << >> ELSE << << "w" >> >>
    /\ Ran(NotLine(x.text)) =>
         out = << IF Falsy(x.value) THEN << "t", "r", "u", "e" >>
                  ELSE << "f", "a", "l", "s", "e" >> >>
    /\ Ran(OrLine(x.text)) =>
         out = << IF Falsy(x.value) THEN << "r" >> ELSE x.printed >>
    /\ Ran(AndLine(x.text)) =>
         out = << IF Falsy(x.value) THEN x.printed ELSE << "r" >> >>
    /\ (Ran(IfLine(x.text)) \/ Ran(WhileLine(x.text)) \/ Ran(NotLine(x.text))
          \/ Ran(OrLine(x.text)) \/ Ran(AndLine(x.text))) =>
         raised = << >> /\ ~hadError

\* if (0) has run its then-branch
C26_IfZeroRanThen ==
  /\ Ran(IfLine(<< "0" >>))
  /\ out = << << "t" >> >>

(***************************************************************************)
(* Properties of Nova.hadError and Nova.hadRuntimeError.                   *)
(***************************************************************************)
\* C27: every static error report sets Nova.hadError and nothing clears it;
\* once a line has reported a static error no later run(line) enters
\* interpret; a run-time error sets hadRuntimeError, leaves hadError alone
\* and leaves the process able to run the lines after it.
C27_StaticErrorStopsLaterRuns ==
  /\ [][(inputs' # inputs /\ stderr' # << >>) => hadError']_vars
  /\ [][hadError => hadError']_vars
  /\ [][(pc = "idle" /\ (stderr # << >> \/ hadError)) => pc' # "interpreting"]_vars
  /\ [][Len(raised') > Len(raised) => (hadRuntimeError' /\ hadError' = hadError)]_vars
  /\ [](raised # << >> => pc # "crashed")

\* the line after a line with a scanner error has been interpreted and has
\* printed
C27_PrintedAfterScannerError ==
  /\ inputs = 2
  /\ lowerHadError
  /\ scanner.errors = << >>
  /\ out # << >>

(***************************************************************************)
(* Properties of the parser's cursor.                                      *)
(***************************************************************************)
\* C28: on a token list whose only EOF is its last token the cursor never
\* goes back and stays within 0 .. length - 1; previous() is not called with
\* the cursor at 0, so it never gives the last token for tokens.at(-1);
\* neither peek() nor previous() throws: parse() lets no exception out and
\* what declaration() catches is a ParseError.
C28_CursorInBounds ==
  /\ [](/\ 0 <= parser.current
        /\ parser.current <= Len(parser.tokens) - 1
        /\ ~parser.wrapped
        /\ pc # "crashed"
        /\ escaped = NoException
        /\ \A k \in 1..Len(parser.syncs) :
             /\ parser.syncs[k].caught = "ParseError"
             /\ parser.syncs[k].from <= parser.syncs[k].to
             /\ parser.syncs[k].from >= 1 \/ TypeAt(parser.syncs[k].from) # "EOF")
  /\ [][parser'.current >= parser.current]_vars

\* synchronize() was entered with the cursor at EOF, where advance() does not
\* move it, and parse() has returned
C28_SynchronizedAtEOF ==
  /\ pc = "parsed"
  /\ parser.current = Len(parser.tokens) - 1
  /\ \E k \in 1..Len(parser.syncs) :
       /\ parser.syncs[k].from = Len(parser.tokens) - 1
       /\ parser.syncs[k].to = Len(parser.tokens) - 1

(***************************************************************************)
(* Termination of parse().                                                 *)
(***************************************************************************)
\* the cursor after a declaration() call made with the cursor at offset j
AfterDeclarationAt(j) == declaration([parser EXCEPT !.current = j]).p.current

\* C29: parse() returns on every token list that ends in EOF.  Every
\* iteration of its loop leaves the cursor further on than it found it, and
\* so does a declaration() call at any offset before EOF, those made by the
\* loop of block() included; a declaration() that fails leaves the cursor
\* where synchronize() left it, at least one token after the token of the
\* error unless that token is EOF.
C29_ParseTerminates ==
  /\ <>(pc = "parsed")
  /\ [](\A k \in 1..Len(declLog) :
          /\ declLog[k].from < declLog[k].to
          /\ ~declLog[k].pushed =>
               /\ declLog[k].syncs > 0
               /\ declLog[k].to = parser.syncs[declLog[k].lastSync].to)
  /\ [](\A k \in 1..Len(parser.syncs) :
          \/ parser.syncs[k].to > parser.syncs[k].from
          \/ TypeAt(parser.syncs[k].from) = "EOF")
  /\ []((pc = "parsing" /\ declLog = << >>) =>
          \A j \in 0..(Len(parser.tokens) - 2) : AfterDeclarationAt(j) > j)

\* parse() has returned after an iteration in which declaration() failed and
\* synchronize() moved the cursor by one token
C29_AdvancedOneToken ==
  /\ pc = "parsed"
  /\ \E k \in 1..Len(declLog) :
       /\ declLog[k].syncs = 1
       /\ declLog[k].to = declLog[k].from + 1

(***************************************************************************)
(* Properties of the Var statement.                                        *)
(***************************************************************************)
\* the names bound in the top-level environment
TopLevelNames == DOMAIN heap[1].values

\* C30: a Var statement evaluates its initializer first, with the bindings as
\* they are before the definition, and then defines the name in the current
\* environment with the value; when the initializer raises, nothing is
\* defined; with no initializer the value is nil.  In a block
\* 'var a = a + 1;' reads the enclosing a and makes an inner a, the
\* enclosing a unchanged.
C30_InitializerBeforeDefinition ==
  /\ [][(pc = "interpreting" /\ statements[next].node = "Var") =>
          LET stmt == statements[next]
              val == IF stmt.initializer # null
                     THEN evaluate(ThisInterpreter, stmt.initializer)
                     ELSE Done(ThisInterpreter, Nil)
          IN IF Returned(val)
             THEN /\ DOMAIN heap'[environment].values
                       = DOMAIN val.i.heap[environment].values \cup {stmt.name.lexeme}
                  /\ heap'[environment].values[stmt.name.lexeme] = val.v
                  /\ \A x \in DOMAIN val.i.heap[environment].values \ {stmt.name.lexeme} :
                       heap'[environment].values[x] = val.i.heap[environment].values[x]
                  /\ stmt.initializer = null =>
                       heap'[environment].values[stmt.name.lexeme] = Nil
                  /\ raised' = raised
             ELSE /\ heap' = val.i.heap
                  /\ raised' = Append(raised, val.ex)]_vars
  /\ [](Ran(ShadowingVarLine) =>
          /\ out = << << "2" >>, << "1" >> >>
          /\ heap[1].values[<< "a" >>] = Num(1, 1)
          /\ raised = << >>)
  /\ [](Ran(RedefiningVarLine) => out = << << "2" >> >>)
  /\ []((source = FailingVarLine /\ pc # "interpreting") =>
          /\ pc = "idle"
          /\ hadRuntimeError
          /\ << "b" >> \notin TopLevelNames)
  /\ []((source = UndefinedVarLine /\ pc # "interpreting") =>
          /\ Len(raised) = 1
          /\ << "d" >> \notin TopLevelNames)
  /\ [](Ran(BareVarLine) =>
          /\ out = << << "n", "i", "l" >> >>
          /\ heap[1].values[<< "c" >>] = Nil)

\* the block has declared its a from the enclosing a and printed 2, and the
\* statement after the block has printed the enclosing a, 1
C30_InnerFromEnclosing ==
  /\ Ran(ShadowingVarLine)
  /\ out = << << "2" >>, << "1" >> >>

====
